---- MODULE Spec2Model ----
(***************************************************************************)
(* State-machine model of the nixstrav RFID access-control pipeline:       *)
(*   - the central decision service (rfid-server/rfid_server.py),          *)
(*   - the edge agents under rfid-client: the two outbox-based agents      *)
(*     (cf661, innod) and the in-memory agent (chafon raw).                *)
(* Time is counted in ticks; the server's wall clock is `now`.             *)
(***************************************************************************)
EXTENDS Integers, Sequences, FiniteSets, TLC

VARIABLES
    cfg,        \* server: CONFIG as loaded at start (rfid_server.py:54-78, 162-164)
    now,        \* server: wall clock, datetime.now(timezone.utc)
    events,     \* server: committed rows of table events, ascending id
    lastId,     \* server: committed sqlite_sequence value of table events
    h,          \* server: the request handler ingest_tags (position, open transaction)
    relaySer,   \* server: RELAY_BOARD.ser ("none" or "open")
    relayLog,   \* server: what was written to the relay serial line, per event
    resp,       \* server: the last response of POST /api/tags
    getResp,    \* server: the last response of GET /api/events
    evCount,    \* server: number of batch elements handled so far
    variant,    \* edge: which agent runs ("cf661", "innod", "chafon")
    store,      \* edge: rows of the outbox table events (EventStore), ascending id
    storeSeq,   \* edge: sqlite_sequence value of the outbox table
    pending,    \* edge: the list pending of the chafon agent's main
    seq,        \* edge: the counter seq of the chafon agent's main
    since,      \* edge: ticks since last_send, counted up to SendInterval
    reads,      \* edge: number of tags the decoder has produced so far
    acked,      \* edge: reads of requests the center answered with 2xx
    trimmed,    \* edge: reads deleted by the outbox capacity trim
    lastSend,   \* edge: the last delivery attempt and what it did
    armIn,      \* arming check: schedule entry and local hour under test
    armOut,     \* arming check: the decision of is_reader_armed
    obx,        \* outbox: the last EventStore call, its arguments and its result
    dec,        \* decoder: the serial stream, the reader's buffer, the tags emitted
    thr,        \* server, threaded: the request handler each thread runs
    dbLock,     \* server, threaded: the thread holding the write lock of events.db (0: none)
    rdr,        \* edge: the reader's serial handle self.ser and its last read call
    lastFire,   \* server: the last fire_momentary call and what it did
    readTags    \* edge: the tags of the reads stored in the outbox, by read number

srvVars == <<cfg, now, events, lastId, h, relaySer, relayLog, resp, getResp, evCount>>

edgeVars == <<variant, store, storeSeq, pending, seq, since, reads, acked, trimmed, lastSend>>

armVars == <<armIn, armOut>>

unitVars == <<obx, dec>>

scenVars == <<thr, dbLock, rdr, lastFire, readTags>>

vars == <<cfg, now, events, lastId, h, relaySer, relayLog, resp, getResp, evCount,
          variant, store, storeSeq, pending, seq, since, reads, acked, trimmed, lastSend,
          armIn, armOut, obx, dec, thr, dbLock, rdr, lastFire, readTags>>

(***************************************************************************)
(* Bounds of the model.                                                    *)
(***************************************************************************)
MaxTime == 3        \* the server clock runs over 0..MaxTime
MaxEv == 2          \* batch elements handled in one run of Spec
MaxBatch == 3       \* elements of the one batch of SpecBatch
MaxPrior == 1       \* elements handled before that batch in SpecBatch
MaxReads == 4       \* tags decoded by the edge agent in one run of SpecEdge
OutboxCapacity == 3 \* stands for max_events=10000 of EventStore, scaled down
BatchSize == 2      \* stands for send_batch_size (default 200), scaled down
SendInterval == 2   \* stands for send_interval_sec / SEND_INTERVAL_SEC, in ticks
ChafonBatch == 2    \* stands for MAX_BATCH_SIZE = 20 of the chafon agent, scaled down
MaxAppends == 5     \* add_event calls in one run of SpecOutbox
MaxPieces == 3      \* pieces a serial stream of SpecDecoder is made of
MaxConcEv == 2      \* events handled by the threads in one run of SpecConc
MaxConcTime == 1    \* the server clock runs over 0..MaxConcTime in SpecConc
MaxResendEv == 4    \* events the center handles in one run of SpecResend
MaxCalls == 3       \* calls on each serial line in one run of SpecLines

(***************************************************************************)
(* Small helpers.                                                          *)
(***************************************************************************)
Abs(x) == IF x < 0 THEN -x ELSE x

Last(s) == s[Len(s)]

Reverse(s) == [i \in 1..Len(s) |-> s[Len(s) + 1 - i]]

\* The ids of the rows of a table.
Ids(st) == { st[i].id : i \in 1..Len(st) }

RowSet(st) == { st[i] : i \in 1..Len(st) }

(***************************************************************************)
(* Server configuration.                                                   *)
(***************************************************************************)
Readers == {"gate", "door"}

\* KNOWN_TAGS: only membership is used.
KNOWN_TAGS == {"K1"}

\* Local hour of the server at clock 0, and the length of an hour in ticks.
EpochHour == 22
TicksPerHour == 1

\* now_utc.astimezone().hour
HourOf(t) == (EpochHour + (t \div TicksPerHour)) % 24

\* READER_SCHEDULES.get(reader_id) when the reader has no entry.
NoSchedule == [mode |-> "missing", start_hour |-> 0, end_hour |-> 0]

Window(s, e) == [mode |-> "window", start_hour |-> s, end_hour |-> e]

\* RELAY_MAPPING.get(reader_id): 0 stands for "no entry".
NoChannel == 0

Schedule(mode) == [mode |-> mode, start_hour |-> 0, end_hour |-> 0]

\* A deployment with the filters on: gate has a relay channel and a night
\* window, door has neither a channel nor a schedule entry.
ConfigFiltersOn ==
    [window_sec |-> 1, ignore_late_sec |-> 1, max_events |-> 3, relay_enabled |-> TRUE,
     mapping |-> [r \in Readers |-> IF r = "gate" THEN 1 ELSE NoChannel],
     schedules |-> [r \in Readers |-> IF r = "gate" THEN Window(22, 1) ELSE NoSchedule]]

\* Dedup and late filter switched off (0), a small retention cap; door is
\* mapped to a channel the board does not have and has an unknown mode.
ConfigFiltersOff ==
    [window_sec |-> 0, ignore_late_sec |-> 0, max_events |-> 2, relay_enabled |-> TRUE,
     mapping |-> [r \in Readers |-> IF r = "gate" THEN 1 ELSE 5],
     schedules |-> [r \in Readers |-> IF r = "gate" THEN Schedule("always")
                                                     ELSE Schedule("other")]]

\* Relay disabled, retention off (0); door is never armed.
ConfigRelayOff ==
    [window_sec |-> 1, ignore_late_sec |-> 1, max_events |-> 0, relay_enabled |-> FALSE,
     mapping |-> [r \in Readers |-> IF r = "gate" THEN 1 ELSE NoChannel],
     schedules |-> [r \in Readers |-> IF r = "gate" THEN NoSchedule ELSE Schedule("never")]]

ServerConfigs == {ConfigFiltersOn, ConfigFiltersOff, ConfigRelayOff}

\* The proportion of the defaults (window_sec 10, ignore_late_sec 300): the
\* late limit is longer than the dedup window; no retention, gate always armed.
ConfigLateLonger ==
    [window_sec |-> 1, ignore_late_sec |-> 2, max_events |-> 0, relay_enabled |-> TRUE,
     mapping |-> [r \in Readers |-> IF r = "gate" THEN 1 ELSE NoChannel],
     schedules |-> [r \in Readers |-> IF r = "gate" THEN Schedule("always") ELSE NoSchedule]]

ResendConfigs == {ConfigFiltersOn, ConfigLateLonger}

(***************************************************************************)
(* Inputs of POST /api/tags.                                               *)
(***************************************************************************)
\* Raw "tag" values of an event; "NONE" stands for a missing tag.
\* str(tag_raw).strip().upper()
NormTag(raw) == CASE raw = " k1 " -> "K1"
                  [] OTHER -> raw

\* Raw "ts" values of an event: absent or empty, not ISO-8601, ISO-8601 with
\* a UTC offset (t is the instant), ISO-8601 without offset (naive).
TsMissing == [kind |-> "missing", t |-> 0]

TsInputs == { TsMissing, [kind |-> "bad", t |-> 0],
              [kind |-> "aware", t |-> 0], [kind |-> "naive", t |-> 0] }

\* Elements of the events array: a JSON object, or any other JSON value.
Event(tag, ts) == [shape |-> "object", id |-> 1, tag |-> tag, ts |-> ts]

ScalarEvent == [shape |-> "scalar", id |-> 0, tag |-> "NONE", ts |-> TsMissing]

EventInputs ==
    { Event("K1", ts) : ts \in TsInputs }
    \cup { Event("U9", TsMissing), Event("U9", [kind |-> "naive", t |-> 0]),
           Event(" k1 ", TsMissing), Event("NONE", TsMissing), ScalarEvent }

\* The events of the batch scenario: reads of the known tag, on time.
BatchEventInputs == { Event("K1", TsMissing), Event("K1", [kind |-> "aware", t |-> 0]) }

\* Request bodies that do not reach the event loop.
BadBodies == {"invalid_json", "not_an_object", "no_reader_id", "events_not_list"}

\* What the relay serial line does when it is used: serial.Serial(...) succeeds
\* or raises (openOk); write and flush succeed, or write raises, or flush raises.
LineInputs == { [openOk |-> TRUE, wr |-> "ok"], [openOk |-> TRUE, wr |-> "write_fail"],
                [openOk |-> TRUE, wr |-> "flush_fail"], [openOk |-> FALSE, wr |-> "ok"] }

WorkingLine == { [openOk |-> TRUE, wr |-> "ok"] }

(***************************************************************************)
(* Decision engine: pure functions.                                        *)
(***************************************************************************)
\* A parse_ts_iso that drops the UTC offset of the value.
parse_ts_iso_DropsOffset(ts) ==
    IF ts.kind \in {"missing", "bad"} THEN [kind |-> "none", t |-> 0]
    ELSE [kind |-> "naive", t |-> ts.t]

\* parse_ts_iso: None for a missing or unparseable value, else the datetime.
parse_ts_iso(ts) ==
    IF ts.kind \in {"missing", "bad"} THEN [kind |-> "none", t |-> 0] ELSE ts

\* is_late with the comparison delta >= IGNORE_LATE_SEC.
is_late_Inclusive(c, ts_client, received_at) ==
    IF c.ignore_late_sec <= 0 \/ ts_client.kind = "none" THEN "no"
    ELSE IF ts_client.kind = "naive" THEN "TypeError"
    ELSE IF received_at - ts_client.t >= c.ignore_late_sec THEN "late"
    ELSE "no"

\* is_late: "no", "late", or "TypeError" (aware minus naive datetime raises).
is_late(c, ts_client, received_at) ==
    IF c.ignore_late_sec <= 0 \/ ts_client.kind = "none" THEN "no"
    ELSE IF ts_client.kind = "naive" THEN "TypeError"
    ELSE IF received_at - ts_client.t > c.ignore_late_sec THEN "late"
    ELSE "no"

\* The rows the cursor of the handler sees for (reader_id, tag), ascending id.
PairRows(tbl, reader_id, tag) ==
    SelectSeq(tbl, LAMBDA r : r.reader_id = reader_id /\ r.tag = tag)

\* is_duplicate with the comparison abs(delta) < DEDUP_WINDOW_SEC.
is_duplicate_Strict(c, tbl, reader_id, tag, received_at) ==
    IF c.window_sec <= 0 THEN FALSE
    ELSE LET rows == PairRows(tbl, reader_id, tag) IN
         IF rows = <<>> THEN FALSE
         ELSE Abs(received_at - Last(rows).received_at) < c.window_sec

\* is_duplicate: compares with the row of the pair that has the highest id.
is_duplicate(c, tbl, reader_id, tag, received_at) ==
    IF c.window_sec <= 0 THEN FALSE
    ELSE LET rows == PairRows(tbl, reader_id, tag) IN
         IF rows = <<>> THEN FALSE
         ELSE Abs(received_at - Last(rows).received_at) <= c.window_sec

\* is_reader_armed with the night window joined by "and".
is_reader_armed_NoWrap(sc, hour) ==
    IF sc.mode = "missing" THEN TRUE
    ELSE IF sc.mode = "always" THEN TRUE
    ELSE IF sc.mode = "never" THEN FALSE
    ELSE IF sc.mode = "window" THEN
        IF sc.start_hour = sc.end_hour THEN TRUE
        ELSE IF sc.start_hour < sc.end_hour
             THEN sc.start_hour <= hour /\ hour < sc.end_hour
             ELSE hour >= sc.start_hour /\ hour < sc.end_hour
    ELSE TRUE

\* is_reader_armed, on the schedule entry of the reader and the local hour.
is_reader_armed(sc, hour) ==
    IF sc.mode = "missing" THEN TRUE
    ELSE IF sc.mode = "always" THEN TRUE
    ELSE IF sc.mode = "never" THEN FALSE
    ELSE IF sc.mode = "window" THEN
        IF sc.start_hour = sc.end_hour THEN TRUE
        ELSE IF sc.start_hour < sc.end_hour
             THEN sc.start_hour <= hour /\ hour < sc.end_hour
             ELSE hour >= sc.start_hour \/ hour < sc.end_hour
    ELSE TRUE

(***************************************************************************)
(* Relay actuator.                                                         *)
(***************************************************************************)
\* Channels of RelayBoard.CMD_MOMENTARY.
RelayChannels == 1..4

\* Outcome of a relay step that touched nothing: ok and reason as returned,
\* ser the connection afterwards, channel the command's channel (0: none),
\* opens the number of serial.Serial(...) calls, openFailed whether one raised,
\* writeTried whether ser.write was called, written/flushed whether ser.write
\* and ser.flush returned.
NoRelay(ser) == [ok |-> FALSE, reason |-> "", ser |-> ser, channel |-> 0,
                 opens |-> 0, openFailed |-> FALSE, writeTried |-> FALSE,
                 written |-> FALSE, flushed |-> FALSE]

\* fire_momentary that reports success although write or flush raised.
fire_momentary_IgnoresWriteError(ser, channel, openOk, wr) ==
    IF channel \notin RelayChannels
    THEN NoRelay(ser)
    ELSE IF ser # "open" /\ ~openOk
    THEN [NoRelay("none") EXCEPT !.channel = channel, !.opens = 1, !.openFailed = TRUE]
    ELSE [ok |-> TRUE, reason |-> "", ser |-> "open", channel |-> channel,
          opens |-> IF ser = "open" THEN 0 ELSE 1, openFailed |-> FALSE,
          writeTried |-> TRUE, written |-> wr # "write_fail", flushed |-> wr = "ok"]

\* RelayBoard.fire_momentary with _ensure_open: ser is the connection before
\* the call, openOk and wr what the serial line does if it is used.
fire_momentary(ser, channel, openOk, wr) ==
    IF channel \notin RelayChannels
    THEN NoRelay(ser)
    ELSE IF ser # "open" /\ ~openOk
    THEN [NoRelay("none") EXCEPT !.channel = channel, !.opens = 1, !.openFailed = TRUE]
    ELSE LET opens == IF ser = "open" THEN 0 ELSE 1 IN
         CASE wr = "ok" ->
                [ok |-> TRUE, reason |-> "", ser |-> "open", channel |-> channel,
                 opens |-> opens, openFailed |-> FALSE, writeTried |-> TRUE,
                 written |-> TRUE, flushed |-> TRUE]
           [] wr = "write_fail" ->
                [ok |-> FALSE, reason |-> "", ser |-> "none", channel |-> channel,
                 opens |-> opens, openFailed |-> FALSE, writeTried |-> TRUE,
                 written |-> FALSE, flushed |-> FALSE]
           [] OTHER ->
                [ok |-> FALSE, reason |-> "", ser |-> "none", channel |-> channel,
                 opens |-> opens, openFailed |-> FALSE, writeTried |-> TRUE,
                 written |-> TRUE, flushed |-> FALSE]

\* trigger_relay
trigger_relay(c, ser, reader_id, openOk, wr) ==
    IF ~c.relay_enabled THEN [NoRelay(ser) EXCEPT !.reason = "relay_disabled"]
    ELSE IF c.mapping[reader_id] = NoChannel
    THEN [NoRelay(ser) EXCEPT !.reason = "no_channel_for_reader"]
    ELSE LET f == fire_momentary(ser, c.mapping[reader_id], openOk, wr) IN
         [f EXCEPT !.reason = IF f.ok THEN "ok" ELSE "relay_error"]

\* The decision with the late check (3) made before the schedule check (2).
Decide_LateBeforeSchedule(c, tbl, ser, reader_id, tag, ts, received_at, openOk, wr) ==
    IF tag \notin KNOWN_TAGS
    THEN [reason |-> "unknown_tag", fired |-> FALSE, raised |-> FALSE, relay |-> NoRelay(ser)]
    ELSE LET late == is_late(c, parse_ts_iso(ts), received_at) IN
         IF late = "TypeError"
         THEN [reason |-> "", fired |-> FALSE, raised |-> TRUE, relay |-> NoRelay(ser)]
         ELSE IF late = "late"
         THEN [reason |-> "too_late", fired |-> FALSE, raised |-> FALSE, relay |-> NoRelay(ser)]
         ELSE IF ~is_reader_armed(c.schedules[reader_id], HourOf(received_at))
         THEN [reason |-> "outside_schedule", fired |-> FALSE, raised |-> FALSE,
               relay |-> NoRelay(ser)]
         ELSE IF is_duplicate(c, tbl, reader_id, tag, received_at)
         THEN [reason |-> "duplicate", fired |-> FALSE, raised |-> FALSE, relay |-> NoRelay(ser)]
         ELSE LET rl == trigger_relay(c, ser, reader_id, openOk, wr) IN
              [reason |-> rl.reason, fired |-> rl.ok, raised |-> FALSE, relay |-> rl]

\* The decision of ingest_tags for one event with a tag (steps 1 to 5):
\* reason, fired flag, what happened at the relay, and whether is_late raised.
Decide(c, tbl, ser, reader_id, tag, ts, received_at, openOk, wr) ==
    IF tag \notin KNOWN_TAGS
    THEN [reason |-> "unknown_tag", fired |-> FALSE, raised |-> FALSE, relay |-> NoRelay(ser)]
    ELSE IF ~is_reader_armed(c.schedules[reader_id], HourOf(received_at))
    THEN [reason |-> "outside_schedule", fired |-> FALSE, raised |-> FALSE, relay |-> NoRelay(ser)]
    ELSE LET late == is_late(c, parse_ts_iso(ts), received_at) IN
         IF late = "TypeError"
         THEN [reason |-> "", fired |-> FALSE, raised |-> TRUE, relay |-> NoRelay(ser)]
         ELSE IF late = "late"
         THEN [reason |-> "too_late", fired |-> FALSE, raised |-> FALSE, relay |-> NoRelay(ser)]
         ELSE IF is_duplicate(c, tbl, reader_id, tag, received_at)
         THEN [reason |-> "duplicate", fired |-> FALSE, raised |-> FALSE, relay |-> NoRelay(ser)]
         ELSE LET rl == trigger_relay(c, ser, reader_id, openOk, wr) IN
              [reason |-> rl.reason, fired |-> rl.ok, raised |-> FALSE, relay |-> rl]

(***************************************************************************)
(* Audit log.                                                              *)
(***************************************************************************)
\* enforce_retention that keeps one row more than MAX_EVENTS.
enforce_retention_KeepsOneMore(c, tbl) ==
    IF c.max_events <= 0 THEN tbl
    ELSE IF tbl = <<>> THEN tbl
    ELSE LET min_id_to_keep == Last(tbl).id - c.max_events IN
         IF min_id_to_keep <= 1 THEN tbl
         ELSE SelectSeq(tbl, LAMBDA r : r.id >= min_id_to_keep)

\* enforce_retention on the committed table.
enforce_retention(c, tbl) ==
    IF c.max_events <= 0 THEN tbl
    ELSE IF tbl = <<>> THEN tbl
    ELSE LET max_id == Last(tbl).id
             min_id_to_keep == max_id - c.max_events + 1
         IN IF min_id_to_keep <= 1 THEN tbl
            ELSE SelectSeq(tbl, LAMBDA r : r.id >= min_id_to_keep)

\* SELECT ... ORDER BY id DESC LIMIT ? (a negative LIMIT means no limit).
SelectNewest(tbl, limit) ==
    LET desc == Reverse(tbl) IN
    IF limit < 0 \/ limit >= Len(desc) THEN desc ELSE SubSeq(desc, 1, limit)

(***************************************************************************)
(* The request handlers of the central service.                            *)
(***************************************************************************)
NoEvent == [shape |-> "none", id |-> 0, tag |-> "NONE", ts |-> TsMissing]

IdleHandler == [pc |-> "idle", reader_id |-> "", received_at |-> 0, n |-> 0,
                txn |-> <<>>, seq |-> 0, results |-> <<>>, attempts |-> 0, wrote |-> 0]

NoResponse == [status |-> 0, error |-> "", count |-> 0, results |-> <<>>, body |-> "",
               failedOn |-> NoEvent, attempts |-> 0, added |-> 0, wrote |-> 0]

NoGet == [fresh |-> FALSE, limit |-> 0, rows |-> <<>>]

\* Values of ?limit= of GET /api/events.
LimitInputs == {3}

BatchLimitInputs == {2, 3}

\* A cursor that sees committed rows only.
Visible_CommittedOnly == events

\* The rows the cursor of the open handler sees: committed rows, then its own.
Visible == events \o h.txn

\* jsonify(...), 400 / the framework's answer to an unhandled exception, 500.
ErrorResponse(status, error, body, ev) ==
    [NoResponse EXCEPT !.status = status, !.error = error, !.body = body, !.failedOn = ev,
                       !.attempts = h.attempts + (IF ev.shape = "object" THEN 1 ELSE 0),
                       !.wrote = h.wrote]

\* ingest_tags, lines 428-450: a body that does not reach the event loop.
PostBad(body) ==
    /\ h.pc = "idle"
    /\ resp' = CASE body = "invalid_json" ->
                      ErrorResponse(400, "invalid_json", body, NoEvent)
                 [] body = "not_an_object" ->
                      \* payload.get raises AttributeError
                      ErrorResponse(500, "internal_server_error", body, NoEvent)
                 [] OTHER ->
                      ErrorResponse(400, "missing_reader_or_events", body, NoEvent)
    /\ getResp' = NoGet
    /\ UNCHANGED <<cfg, now, events, lastId, h, relaySer, relayLog, evCount>>
    /\ UNCHANGED <<edgeVars, armVars, unitVars, scenVars>>

\* ingest_tags, lines 428-455: a well-formed body; the connection is opened.
PostBegin(reader_id) ==
    /\ h.pc = "idle"
    /\ h' = [IdleHandler EXCEPT !.pc = "loop", !.reader_id = reader_id,
                                !.received_at = now, !.seq = lastId]
    /\ resp' = NoResponse
    /\ getResp' = NoGet
    /\ UNCHANGED <<cfg, now, events, lastId, relaySer, relayLog, evCount>>
    /\ UNCHANGED <<edgeVars, armVars, unitVars, scenVars>>

\* What the handler knew about an event when it decided it.
Ghost(ev, tag, d) ==
    LET rows == PairRows(Visible, h.reader_id, tag) IN
    [ev |-> evCount + 1, reader_id |-> h.reader_id, received_at |-> h.received_at,
     ts |-> ev.ts,
     known |-> tag \in KNOWN_TAGS,
     armed |-> is_reader_armed(cfg.schedules[h.reader_id], HourOf(h.received_at)),
     late |-> is_late(cfg, parse_ts_iso(ev.ts), h.received_at) = "late",
     dup |-> is_duplicate(cfg, Visible, h.reader_id, tag, h.received_at),
     hasPrior |-> rows # <<>>,
     priorAt |-> IF rows = <<>> THEN 0 ELSE Last(rows).received_at,
     serBefore |-> relaySer,
     channel |-> cfg.mapping[h.reader_id],
     relay |-> d.relay]

\* ingest_tags, lines 457-526: one iteration of "for ev in events".
HandleEvent(ev, line) ==
    /\ h.pc = "loop"
    /\ evCount' = evCount + 1
    /\ getResp' = NoGet
    /\ UNCHANGED <<cfg, now, events, lastId>>
    /\ UNCHANGED <<edgeVars, armVars, unitVars, scenVars>>
    /\ IF ev.shape # "object"
       THEN \* ev.get raises AttributeError: the connection is closed uncommitted
            /\ h' = IdleHandler
            /\ resp' = ErrorResponse(500, "internal_server_error", "valid", ev)
            /\ UNCHANGED <<relaySer, relayLog>>
       ELSE IF ev.tag = "NONE"
       THEN \* continue
            /\ h' = [h EXCEPT !.n = @ + 1]
            /\ UNCHANGED <<resp, relaySer, relayLog>>
       ELSE LET tag == NormTag(ev.tag)
                d == Decide(cfg, Visible, relaySer, h.reader_id, tag, ev.ts,
                            h.received_at, line.openOk, line.wr)
                g == Ghost(ev, tag, d)
                db_id == h.seq + 1
                row == [id |-> db_id, reader_id |-> h.reader_id, tag |-> tag,
                        received_at |-> h.received_at,
                        fired |-> d.fired, reason |-> d.reason,
                        edge_event_id |-> ev.id, ev |-> evCount + 1]
                res == [db_id |-> db_id, edge_event_id |-> ev.id, tag |-> tag,
                        fired |-> d.fired, reason |-> d.reason, g |-> g]
            IN IF d.raised
               THEN \* is_late raises TypeError
                    /\ h' = IdleHandler
                    /\ resp' = ErrorResponse(500, "internal_server_error", "valid", ev)
                    /\ UNCHANGED <<relaySer, relayLog>>
               ELSE /\ h' = [h EXCEPT !.n = @ + 1, !.seq = db_id,
                                      !.txn = Append(@, row),
                                      !.results = Append(@, res),
                                      !.attempts = @ + 1,
                                      !.wrote = @ + (IF d.relay.written THEN 1 ELSE 0)]
                    /\ relaySer' = d.relay.ser
                    /\ relayLog' = IF d.relay.written
                                   THEN relayLog \cup
                                        {[ev |-> evCount + 1, channel |-> d.relay.channel,
                                          flushed |-> d.relay.flushed,
                                          passed |-> g.known /\ g.armed /\ ~g.late /\ ~g.dup]}
                                   ELSE relayLog
                    /\ UNCHANGED resp

\* ingest_tags, lines 528-534: commit, retention, response.
PostFinish ==
    /\ h.pc = "loop"
    /\ events' = enforce_retention(cfg, events \o h.txn)
    /\ lastId' = h.seq
    /\ resp' = [NoResponse EXCEPT !.status = 200, !.count = Len(h.results),
                                  !.results = h.results, !.body = "valid",
                                  !.attempts = h.attempts, !.added = Len(h.txn),
                                  !.wrote = h.wrote]
    /\ h' = IdleHandler
    /\ getResp' = NoGet
    /\ UNCHANGED <<cfg, now, relaySer, relayLog, evCount>>
    /\ UNCHANGED <<edgeVars, armVars, unitVars, scenVars>>

\* list_events
ListEvents(limit) ==
    /\ h.pc = "idle"
    /\ getResp' = [fresh |-> TRUE, limit |-> limit, rows |-> SelectNewest(events, limit)]
    /\ UNCHANGED <<cfg, now, events, lastId, h, relaySer, relayLog, resp, evCount>>
    /\ UNCHANGED <<edgeVars, armVars, unitVars, scenVars>>

\* The wall clock advances between requests.
Tick(d) ==
    /\ h.pc = "idle"
    /\ now + d <= MaxTime
    /\ now' = now + d
    /\ getResp' = NoGet
    /\ resp' = NoResponse
    /\ UNCHANGED <<cfg, events, lastId, h, relaySer, relayLog, evCount>>
    /\ UNCHANGED <<edgeVars, armVars, unitVars, scenVars>>

(***************************************************************************)
(* Edge agents: outbox (EventStore), sender, main loops.                   *)
(***************************************************************************)
EdgeVariants == {"cf661", "innod", "chafon"}

OutboxVariants == {"cf661", "innod"}

\* What the uplink request meets: 0 stands for a network error or timeout
\* (requests raises), any other value is the HTTP status of the answer.
HttpOutcomes == {0, 200, 204, 400, 500}

Is2xx(status) == 200 <= status /\ status < 300

Min(a, b) == IF a < b THEN a ELSE b

\* _enforce_limit that deletes the newest rows instead of the oldest.
enforce_limit_KeepsOldest(st) ==
    IF Len(st) > OutboxCapacity THEN SubSeq(st, 1, OutboxCapacity) ELSE st

\* EventStore._enforce_limit: the rows that stay.
enforce_limit(st) ==
    IF Len(st) > OutboxCapacity
    THEN SubSeq(st, Len(st) - OutboxCapacity + 1, Len(st))
    ELSE st

\* EventStore.add_event: next id (AUTOINCREMENT), sent = 0, then the trim.
add_event(st, lastSeq, rd) ==
    enforce_limit(Append(st, [id |-> lastSeq + 1, rd |-> rd, sent |-> FALSE]))

\* get_unsent with ORDER BY id DESC: the newest unsent rows.
get_unsent_NewestFirst(st, limit) ==
    LET un == SelectSeq(st, LAMBDA r : ~r.sent) IN
    IF Len(un) > limit THEN SubSeq(un, Len(un) - limit + 1, Len(un)) ELSE un

\* EventStore.get_unsent
get_unsent(st, limit) ==
    LET un == SelectSeq(st, LAMBDA r : ~r.sent) IN
    IF Len(un) > limit THEN SubSeq(un, 1, limit) ELSE un

\* mark_sent that marks every row up to the highest given id.
mark_sent_UpTo(st, ids) ==
    [i \in 1..Len(st) |->
        IF \E k \in ids : st[i].id <= k THEN [st[i] EXCEPT !.sent = TRUE] ELSE st[i]]

\* EventStore.mark_sent
mark_sent(st, ids) ==
    [i \in 1..Len(st) |-> IF st[i].id \in ids THEN [st[i] EXCEPT !.sent = TRUE] ELSE st[i]]

\* send_events that accepts status 200 only.
send_events_Only200(outcome) == outcome = 200

\* Sender.send_events of the outbox agents: True iff the answer is 2xx.
send_events(outcome) == outcome # 0 /\ 200 <= outcome /\ outcome < 300

\* send_events of the chafon agent: the list pending afterwards.
chafon_send_events(pend, outcome) ==
    IF outcome # 0 /\ outcome = 200 THEN <<>> ELSE pend

Rds(rows) == { rows[i].rd : i \in 1..Len(rows) }

\* The reads awaiting delivery on the edge.
PendingReads ==
    IF variant = "chafon" THEN Rds(pending)
    ELSE Rds(SelectSeq(store, LAMBDA r : ~r.sent))

\* What the last iteration of the main loop did about delivery: ran says an
\* iteration ran, due that the send interval had elapsed, full that the pending
\* records had reached the batch size, valid that a request was made.
NoSend == [valid |-> FALSE, status |-> 0, request |-> {}, before |-> {}, after |-> {},
           ran |-> FALSE, due |-> FALSE, full |-> FALSE]

\* One iteration of "while True" in main of the outbox agents (cf661, innod):
\* got says whether read_tag_nonblocking returned a tag, dt is the time the
\* iteration took, outcome what the request meets if one is made.
OutboxLoop(got, dt, outcome) ==
    /\ variant \in OutboxVariants
    /\ got => reads < MaxReads
    /\ LET st1 == IF got THEN add_event(store, storeSeq, reads + 1) ELSE store
           elapsed == Min(since + dt, SendInterval)
           flush == elapsed >= SendInterval
           batch == get_unsent(st1, BatchSize)
           ids == { batch[i].id : i \in 1..Len(batch) }
           ok == send_events(outcome)
           st2 == IF flush /\ batch # <<>> /\ ok THEN mark_sent(st1, ids) ELSE st1
       IN /\ store' = st2
          /\ storeSeq' = IF got THEN storeSeq + 1 ELSE storeSeq
          /\ reads' = IF got THEN reads + 1 ELSE reads
          /\ trimmed' = trimmed \cup
                        (IF got THEN (Rds(store) \cup {reads + 1}) \ Rds(st1) ELSE {})
          /\ since' = IF flush THEN 0 ELSE elapsed
          /\ acked' = IF flush /\ batch # <<>> /\ Is2xx(outcome)
                      THEN acked \cup Rds(batch) ELSE acked
          /\ lastSend' = [valid |-> flush /\ batch # <<>>,
                          status |-> IF flush /\ batch # <<>> THEN outcome ELSE 0,
                          request |-> IF flush /\ batch # <<>> THEN Rds(batch) ELSE {},
                          before |-> Rds(SelectSeq(st1, LAMBDA r : ~r.sent)),
                          after |-> Rds(SelectSeq(st2, LAMBDA r : ~r.sent)),
                          ran |-> TRUE, due |-> flush,
                          full |-> Len(SelectSeq(st1, LAMBDA r : ~r.sent)) >= BatchSize]
    /\ UNCHANGED <<variant, pending, seq>>
    /\ UNCHANGED <<srvVars, armVars, unitVars, scenVars>>

RECURSIVE AppendReads(_, _, _, _)
\* "for epc in epcs: seq += 1; pending.append(...)"
AppendReads(pend, sq, rd, n) ==
    IF n = 0 THEN pend
    ELSE AppendReads(Append(pend, [id |-> sq + 1, rd |-> rd + 1]), sq + 1, rd + 1, n - 1)

\* One iteration of "while True" in main of the chafon agent: n is the number
\* of tags extract_epcs returned for the chunk read.
ChafonLoop(n, dt, outcome) ==
    /\ variant = "chafon"
    /\ reads + n <= MaxReads
    /\ LET p1 == AppendReads(pending, seq, reads, n)
           elapsed == Min(since + dt, SendInterval)
           flush == p1 # <<>> /\ (elapsed >= SendInterval \/ Len(p1) >= ChafonBatch)
           p2 == IF flush THEN chafon_send_events(p1, outcome) ELSE p1
       IN /\ pending' = p2
          /\ seq' = seq + n
          /\ reads' = reads + n
          /\ since' = IF flush THEN 0 ELSE elapsed
          /\ acked' = IF flush /\ Is2xx(outcome) THEN acked \cup Rds(p1) ELSE acked
          /\ lastSend' = [valid |-> flush,
                          status |-> IF flush THEN outcome ELSE 0,
                          request |-> IF flush THEN Rds(p1) ELSE {},
                          before |-> Rds(p1), after |-> Rds(p2),
                          ran |-> TRUE, due |-> elapsed >= SendInterval,
                          full |-> Len(p1) >= ChafonBatch]
    /\ UNCHANGED <<variant, store, storeSeq, trimmed>>
    /\ UNCHANGED <<srvVars, armVars, unitVars, scenVars>>

\* The edge process stops (crash, power loss) and is started again: main runs
\* from its first line; only the outbox file survives.
Restart ==
    /\ pending' = <<>>
    /\ seq' = 0
    /\ since' = IF variant = "chafon" THEN 0 ELSE SendInterval
    /\ lastSend' = NoSend
    /\ UNCHANGED <<variant, store, storeSeq, reads, acked, trimmed>>
    /\ UNCHANGED <<srvVars, armVars, unitVars, scenVars>>

(***************************************************************************)
(* The outbox (EventStore) under arbitrary calls.                          *)
(***************************************************************************)
NoCall == [op |-> "none", ids |-> {}, limit |-> 0, before |-> <<>>, ret |-> <<>>]

\* Arguments of mark_sent: lists of up to two ids, stored or not.
MarkInputs == { ids \in SUBSET (1..MaxAppends) : Cardinality(ids) <= 2 }

\* Arguments of get_unsent.
UnsentLimits == 0..2

\* store.add_event(ts_iso, tag)
OutboxAppend ==
    /\ storeSeq < MaxAppends
    /\ store' = add_event(store, storeSeq, storeSeq + 1)
    /\ storeSeq' = storeSeq + 1
    /\ obx' = [NoCall EXCEPT !.op = "add_event", !.before = store]
    /\ UNCHANGED <<variant, pending, seq, since, reads, acked, trimmed, lastSend>>
    /\ UNCHANGED <<srvVars, armVars, dec, scenVars>>

\* store.mark_sent(ids)
OutboxMarkSent(ids) ==
    /\ store' = mark_sent(store, ids)
    /\ obx' = [NoCall EXCEPT !.op = "mark_sent", !.ids = ids, !.before = store]
    /\ UNCHANGED <<variant, storeSeq, pending, seq, since, reads, acked, trimmed, lastSend>>
    /\ UNCHANGED <<srvVars, armVars, dec, scenVars>>

\* store.get_unsent(limit)
OutboxUnsent(limit) ==
    /\ obx' = [NoCall EXCEPT !.op = "get_unsent", !.limit = limit, !.before = store,
                             !.ret = get_unsent(store, limit)]
    /\ UNCHANGED edgeVars
    /\ UNCHANGED <<srvVars, armVars, dec, scenVars>>

(***************************************************************************)
(* Frame decoders.  Bytes are 0..255; a buffer is a sequence of bytes;     *)
(* positions are counted from 0 as in the source.                          *)
(***************************************************************************)
\* A find that looks at position start only and does not scan forward.
find_NoScan(buf, pat, start) ==
    IF start + Len(pat) <= Len(buf) /\ SubSeq(buf, start + 1, start + Len(pat)) = pat
    THEN start ELSE -1

RECURSIVE find(_, _, _)
\* buf.find(pat, start): the lowest position at or after start, or -1.
find(buf, pat, start) ==
    IF start + Len(pat) > Len(buf) THEN -1
    ELSE IF SubSeq(buf, start + 1, start + Len(pat)) = pat THEN start
    ELSE find(buf, pat, start + 1)

\* buf[a:b]
Slice(buf, a, b) == SubSeq(buf, a + 1, Min(b, Len(buf)))

\* del buf[:n]
DelFront(buf, n) == SubSeq(buf, n + 1, Len(buf))

HexDigits == <<"0", "1", "2", "3", "4", "5", "6", "7", "8", "9", "A", "B", "C", "D", "E", "F">>

\* bytes.hex().upper(): two digits per byte.
Hex(bs) ==
    [k \in 1..(2 * Len(bs)) |->
        LET b == bs[(k + 1) \div 2] IN
        IF k % 2 = 1 THEN HexDigits[(b \div 16) + 1] ELSE HexDigits[(b % 16) + 1]]

\* The no-prefix branch with nothing kept of the buffer.
KeepTail_DropsAll(buf, n) == <<>>

\* "if len(buf) > n: del buf[: len(buf) - n]"
KeepTail(buf, n) == IF Len(buf) > n THEN DelFront(buf, Len(buf) - n) ELSE buf

\* A hold that also drops the first byte of the prefix.
Hold_DropsPrefixToo(buf, idx) == DelFront(buf, idx + 1)

\* "if idx > 0: del buf[:idx]": wait for more data, keep from the prefix on.
Hold(buf, idx) == IF idx > 0 THEN DelFront(buf, idx) ELSE buf

\* What a decode call returns and leaves: the tags in order, the buffer.
Nothing(buf) == [tags |-> <<>>, buf |-> buf]

\* --- chafon raw (cf-ru5112-brama-1) ---
Chafon_FRAME_PREFIX == <<17, 0, 238, 0>>

\* A frame length without the two trailer bytes.
Chafon_FRAME_LEN_NoTrailer == 4 + 12

Chafon_FRAME_LEN == 4 + 12 + 2

Chafon_EPC_OFFSET == 4

Chafon_EPC_LEN == 12

RECURSIVE extract_epcs_while(_, _, _)
\* The "while True" of extract_epcs with its locals i and epcs.
extract_epcs_while(buf, i, epcs) ==
    LET idx == find(buf, Chafon_FRAME_PREFIX, i) IN
    IF idx = -1
    THEN [tags |-> epcs, buf |-> IF i > 0 THEN DelFront(buf, i) ELSE buf]
    ELSE IF Len(buf) < idx + Chafon_FRAME_LEN
    THEN [tags |-> epcs, buf |-> Hold(buf, idx)]
    ELSE LET frame == Slice(buf, idx, idx + Chafon_FRAME_LEN)
             epc_bytes == Slice(frame, Chafon_EPC_OFFSET, Chafon_EPC_OFFSET + Chafon_EPC_LEN)
         IN extract_epcs_while(buf, idx + Chafon_FRAME_LEN, Append(epcs, Hex(epc_bytes)))

extract_epcs(buf) == extract_epcs_while(buf, 0, <<>>)

\* --- CF661 (cf661-pralnia) ---
CF661_PREFIX == <<207, 0, 0, 1, 18>>

CF661_PREFIX_LEN == 5

CF661_MIN_HEADER_LEN == 11

\* CF661Reader.read_tag_nonblocking after _feed_buffer: one tag or None.
CF661_read_tag_nonblocking(buf) ==
    LET idx == find(buf, CF661_PREFIX, 0) IN
    IF idx = -1
    THEN Nothing(KeepTail(buf, CF661_PREFIX_LEN - 1))
    ELSE IF Len(buf) - idx < CF661_MIN_HEADER_LEN
    THEN Nothing(Hold(buf, idx))
    ELSE LET length == buf[idx + 10 + 1]
             frame_len == CF661_MIN_HEADER_LEN + length + 2
         IN IF Len(buf) - idx < frame_len
            THEN Nothing(Hold(buf, idx))
            ELSE LET frame == Slice(buf, idx, idx + frame_len)
                     epc_bytes == Slice(frame, 11, 11 + length)
                 IN [tags |-> <<Hex(epc_bytes)>>, buf |-> DelFront(buf, idx + frame_len)]

\* --- INNOD RU5109 (innod-wejscie-1) ---
Innod_PREFIX == <<67, 84>>

Innod_HEADER_LEN == 4

Innod_LEN_OFFSET == 3

Innod_EPC_OFFSET == 18

Innod_EPC_LEN == 12

Innod_MIN_FRAME_LEN == Innod_EPC_OFFSET + Innod_EPC_LEN + 2

\* read_tag_nonblocking that returns None after dropping a malformed frame.
Innod_read_tag_nonblocking_StopsAtShort(buf) ==
    LET idx == find(buf, Innod_PREFIX, 0) IN
    IF idx = -1
    THEN Nothing(KeepTail(buf, Len(Innod_PREFIX) - 1))
    ELSE IF Len(buf) - idx < Innod_HEADER_LEN
    THEN Nothing(Hold(buf, idx))
    ELSE LET length == buf[idx + Innod_LEN_OFFSET + 1]
             frame_len == Innod_HEADER_LEN + length
         IN IF Len(buf) - idx < frame_len
            THEN Nothing(Hold(buf, idx))
            ELSE LET frame == Slice(buf, idx, idx + frame_len)
                     rest == DelFront(buf, idx + frame_len)
                     epc_bytes == Slice(frame, Innod_EPC_OFFSET, Innod_EPC_OFFSET + Innod_EPC_LEN)
                 IN IF frame_len < Innod_MIN_FRAME_LEN \/ Len(epc_bytes) # Innod_EPC_LEN
                    THEN Nothing(rest)
                    ELSE [tags |-> <<Hex(epc_bytes)>>, buf |-> rest]

RECURSIVE Innod_read_tag_nonblocking(_)
\* InnodReader.read_tag_nonblocking after _feed_buffer: one tag or None; a
\* frame shorter than MIN_FRAME_LEN is dropped and the loop goes on.
Innod_read_tag_nonblocking(buf) ==
    LET idx == find(buf, Innod_PREFIX, 0) IN
    IF idx = -1
    THEN Nothing(KeepTail(buf, Len(Innod_PREFIX) - 1))
    ELSE IF Len(buf) - idx < Innod_HEADER_LEN
    THEN Nothing(Hold(buf, idx))
    ELSE LET length == buf[idx + Innod_LEN_OFFSET + 1]
             frame_len == Innod_HEADER_LEN + length
         IN IF Len(buf) - idx < frame_len
            THEN Nothing(Hold(buf, idx))
            ELSE LET frame == Slice(buf, idx, idx + frame_len)
                     rest == DelFront(buf, idx + frame_len)
                     epc_bytes == Slice(frame, Innod_EPC_OFFSET, Innod_EPC_OFFSET + Innod_EPC_LEN)
                 IN IF frame_len < Innod_MIN_FRAME_LEN
                    THEN Innod_read_tag_nonblocking(rest)
                    ELSE IF Len(epc_bytes) # Innod_EPC_LEN
                    THEN Innod_read_tag_nonblocking(rest)
                    ELSE [tags |-> <<Hex(epc_bytes)>>, buf |-> rest]

\* One decode call of the agent v on its buffer.
Decode(v, buf) ==
    CASE v = "chafon" -> extract_epcs(buf)
      [] v = "cf661" -> CF661_read_tag_nonblocking(buf)
      [] OTHER -> Innod_read_tag_nonblocking(buf)

(***************************************************************************)
(* Serial streams fed to the decoders.                                     *)
(***************************************************************************)
\* n bytes that occur in no prefix.
Noise(n) == [i \in 1..n |-> 170]

EpcA == <<226, 128, 17, 145, 165, 3, 0, 96, 172, 184, 118, 118>>

EpcB == <<226, 128, 17, 145, 165, 3, 0, 96, 172, 184, 118, 119>>

\* 11 00 EE 00 [12 bytes EPC] [2 bytes tail]
ChafonFrame(epc) == Chafon_FRAME_PREFIX \o epc \o <<90, 165>>

\* CF 00 00 01 12 00 XX YY 01 00 LL [LL bytes EPC] [CRC_H] [CRC_L]
CF661Frame(epc) == CF661_PREFIX \o <<0, 1, 2, 1, 0, Len(epc)>> \o epc \o <<90, 165>>

\* 43 54 00 1C 01 45 01 C3 83 25 08 01 3E 2A 01 0F 01 01 [12 bytes EPC] 82 3A
InnodFrame(epc) ==
    Innod_PREFIX \o <<0, 28, 1, 69, 1, 195, 131, 37, 8, 1, 62, 42, 1, 15, 1, 1>> \o epc
    \o <<130, 58>>

\* A frame of the INNOD reader that declares 2 bytes after its header.
InnodShortFrame == Innod_PREFIX \o <<0, 2, 9, 9>>

Prefix(v) ==
    CASE v = "chafon" -> Chafon_FRAME_PREFIX
      [] v = "cf661" -> CF661_PREFIX
      [] OTHER -> Innod_PREFIX

\* The complete frames with a tag that the streams of agent v are made of.
Frames(v) ==
    CASE v = "chafon" -> {ChafonFrame(EpcA), ChafonFrame(EpcB)}
      [] v = "cf661" -> {CF661Frame(<<226, 128, 17>>), CF661Frame(<<177, 178>>)}
      [] OTHER -> {InnodFrame(EpcA), InnodFrame(EpcB)}

\* What the line delivers in one go: noise, the first bytes of a prefix, a
\* prefix on its own, complete frames, the first bytes of a frame, a malformed
\* frame.
Pieces(v) ==
    LET P == Prefix(v) IN
    {Noise(5), SubSeq(P, 1, Len(P) - 1), P}
    \cup Frames(v)
    \cup (IF v = "innod" THEN {InnodShortFrame} ELSE {SubSeq(ChafonFrame(EpcA), 1, 8)})

RECURSIVE Concats(_, _)
\* The streams of up to n pieces.
Concats(ps, n) ==
    IF n = 0 THEN {<<>>}
    ELSE LET prev == Concats(ps, n - 1) IN prev \cup { a \o b : a \in prev, b \in ps }

Streams(v) == Concats(Pieces(v), MaxPieces)

\* ser.read(256)
SerRead == 256

NoDecode == [called |-> FALSE, prevBuf |-> <<>>, inBuf |-> <<>>, tags |-> <<>>,
             outBuf |-> <<>>]

\* stream: what the line will deliver; pos: how much of it has arrived; buf:
\* the buffer; out: the tags emitted so far; bytewise: no chunk so far was
\* longer than one byte; last: the last decode call.
NoStream == [stream |-> <<>>, pos |-> 0, buf |-> <<>>, out |-> <<>>, bytewise |-> TRUE,
             last |-> NoDecode]

\* Sizes of the chunk ser.read returns: nothing, one byte, all there is.
ChunkInputs == {0, 1, Min(SerRead, Len(dec.stream) - dec.pos)}

\* One pass of the read loop: k bytes arrive and join the buffer, then the
\* decoder is called once (the chafon agent calls it only for a chunk).
DecodeStep(k) ==
    /\ k <= Len(dec.stream) - dec.pos
    /\ variant = "chafon" => k > 0
    /\ LET chunk == SubSeq(dec.stream, dec.pos + 1, dec.pos + k)
           inBuf == dec.buf \o chunk
           r == Decode(variant, inBuf)
       IN dec' = [dec EXCEPT !.pos = @ + k, !.buf = r.buf, !.out = @ \o r.tags,
                             !.bytewise = @ /\ k <= 1,
                             !.last = [called |-> TRUE, prevBuf |-> dec.buf, inBuf |-> inBuf,
                                       tags |-> r.tags, outBuf |-> r.buf]]
    /\ UNCHANGED <<srvVars, edgeVars, armVars, obx, scenVars>>

(***************************************************************************)
(* The central service with its requests served by threads (app.run of     *)
(* Flask serves each request in a thread of its own).  Every thread runs   *)
(* ingest_tags on a connection of its own; RELAY_BOARD is shared.          *)
(***************************************************************************)
Threads == {1, 2}

\* The event a thread is handling: its number, tag, and the outcome so far.
NoCur == [ev |-> 0, tag |-> "", reason |-> "", fired |-> FALSE]

\* overlapped: another request was being handled at some time during this one.
IdleThread == [pc |-> "idle", reader_id |-> "", received_at |-> 0, txn |-> <<>>,
               cur |-> NoCur, overlapped |-> FALSE]

\* Tags of the events of the threaded scenario (sent without a timestamp).
ConcTagInputs == {"K1", "U9"}

\* The positions of a thread inside fire_momentary past the channel lookup.
RelaySteps == {"ensure_open", "write", "flush"}

\* Steps 1 to 4 of the decision, up to the relay: the reason of the rejection,
\* or "" when the event goes on to the relay.
Classify(c, tbl, reader_id, tag, ts, received_at) ==
    IF tag \notin KNOWN_TAGS THEN "unknown_tag"
    ELSE IF ~is_reader_armed(c.schedules[reader_id], HourOf(received_at))
    THEN "outside_schedule"
    ELSE IF is_late(c, parse_ts_iso(ts), received_at) = "late" THEN "too_late"
    ELSE IF is_duplicate(c, tbl, reader_id, tag, received_at) THEN "duplicate"
    ELSE ""

\* trigger_relay and fire_momentary up to _ensure_open: the reason when the
\* serial line is not reached, or "" when it is.
RelayPrecheck(c, reader_id) ==
    IF ~c.relay_enabled THEN "relay_disabled"
    ELSE IF c.mapping[reader_id] = NoChannel THEN "no_channel_for_reader"
    ELSE IF c.mapping[reader_id] \notin RelayChannels THEN "relay_error"
    ELSE ""

\* An unhandled exception in a thread: conn.close() rolls back the thread's
\* transaction, the request is answered 500 and the thread is free again.
Raised == IdleThread

\* The thread leaves the relay step with the given outcome.
RelayDone(t, fired, reason) ==
    [thr EXCEPT ![t].pc = "insert", ![t].cur.fired = fired, ![t].cur.reason = reason]

\* ingest_tags, lines 428-455, in thread t.
ConcBegin(t, reader_id) ==
    /\ thr[t].pc = "idle"
    /\ LET busy == \E u \in Threads : u # t /\ thr[u].pc # "idle" IN
       thr' = [u \in Threads |->
                 IF u = t
                 THEN [IdleThread EXCEPT !.pc = "loop", !.reader_id = reader_id,
                                         !.received_at = now, !.overlapped = busy]
                 ELSE IF thr[u].pc # "idle" THEN [thr[u] EXCEPT !.overlapped = TRUE]
                 ELSE thr[u]]
    /\ UNCHANGED <<cfg, now, events, lastId, relaySer, relayLog, evCount, dbLock>>
    /\ UNCHANGED <<h, resp, getResp, edgeVars, armVars, unitVars, rdr, lastFire, readTags>>

\* ingest_tags, lines 458-491 and 357-364, 139-143: the next event of the
\* array is classified through the thread's cursor, which sees the committed
\* rows and the rows of its own transaction.
ConcDecide(t, tag) ==
    /\ thr[t].pc = "loop"
    /\ evCount' = evCount + 1
    /\ LET reason == Classify(cfg, events \o thr[t].txn, thr[t].reader_id, tag, TsMissing,
                              thr[t].received_at)
           pre == RelayPrecheck(cfg, thr[t].reader_id)
           cur == [ev |-> evCount + 1, tag |-> tag, reason |-> "", fired |-> FALSE]
       IN thr' = [thr EXCEPT ![t].cur = [cur EXCEPT !.reason = IF reason # "" THEN reason
                                                              ELSE pre],
                             ![t].pc = IF reason = "" /\ pre = "" THEN "ensure_open"
                                       ELSE "insert"]
    /\ UNCHANGED <<cfg, now, events, lastId, relaySer, relayLog, dbLock>>
    /\ UNCHANGED <<h, resp, getResp, edgeVars, armVars, unitVars, rdr, lastFire, readTags>>

\* RelayBoard._ensure_open, lines 110-128, in thread t.
ConcEnsureOpen(t, openOk) ==
    /\ thr[t].pc = "ensure_open"
    /\ IF relaySer = "open"
       THEN thr' = [thr EXCEPT ![t].pc = "write"] /\ UNCHANGED relaySer
       ELSE IF openOk
       THEN thr' = [thr EXCEPT ![t].pc = "write"] /\ relaySer' = "open"
       ELSE thr' = RelayDone(t, FALSE, "relay_error") /\ relaySer' = "none"
    /\ UNCHANGED <<cfg, now, events, lastId, relayLog, evCount, dbLock>>
    /\ UNCHANGED <<h, resp, getResp, edgeVars, armVars, unitVars, rdr, lastFire, readTags>>

\* self.ser.write(cmd), line 140, and its except branch, in thread t; when
\* another thread has dropped the connection self.ser is None and the call
\* raises AttributeError, which nothing catches.
ConcWrite(t, ok) ==
    /\ thr[t].pc = "write"
    /\ IF relaySer # "open"
       THEN /\ thr' = [thr EXCEPT ![t] = Raised]
            /\ dbLock' = IF dbLock = t THEN 0 ELSE dbLock
            /\ UNCHANGED <<relaySer, relayLog>>
       ELSE IF ok
       THEN /\ thr' = [thr EXCEPT ![t].pc = "flush"]
            /\ relayLog' = relayLog \cup {[ev |-> thr[t].cur.ev,
                                           channel |-> cfg.mapping[thr[t].reader_id],
                                           flushed |-> FALSE, passed |-> TRUE]}
            /\ UNCHANGED <<relaySer, dbLock>>
       ELSE /\ thr' = RelayDone(t, FALSE, "relay_error")
            /\ relaySer' = "none"
            /\ UNCHANGED <<relayLog, dbLock>>
    /\ UNCHANGED <<cfg, now, events, lastId, evCount>>
    /\ UNCHANGED <<h, resp, getResp, edgeVars, armVars, unitVars, rdr, lastFire, readTags>>

\* self.ser.flush() up to "return True", lines 141-149, and the except
\* branch, in thread t.
ConcFlush(t, ok) ==
    /\ thr[t].pc = "flush"
    /\ IF relaySer # "open"
       THEN /\ thr' = [thr EXCEPT ![t] = Raised]
            /\ dbLock' = IF dbLock = t THEN 0 ELSE dbLock
            /\ UNCHANGED <<relaySer, relayLog>>
       ELSE IF ok
       THEN /\ thr' = RelayDone(t, TRUE, "ok")
            /\ relayLog' = { IF e.ev = thr[t].cur.ev THEN [e EXCEPT !.flushed = TRUE] ELSE e :
                             e \in relayLog }
            /\ UNCHANGED <<relaySer, dbLock>>
       ELSE /\ thr' = RelayDone(t, FALSE, "relay_error")
            /\ relaySer' = "none"
            /\ UNCHANGED <<relayLog, dbLock>>
    /\ UNCHANGED <<cfg, now, events, lastId, evCount>>
    /\ UNCHANGED <<h, resp, getResp, edgeVars, armVars, unitVars, rdr, lastFire, readTags>>

\* The INSERT of lines 496-515 in thread t: it takes the write lock of the
\* database file, which the thread keeps until it commits or rolls back.
ConcInsert(t) ==
    /\ thr[t].pc = "insert"
    /\ dbLock \in {0, t}
    /\ dbLock' = t
    /\ LET c == thr[t].cur
           row == [id |-> lastId + Len(thr[t].txn) + 1, reader_id |-> thr[t].reader_id,
                   tag |-> c.tag, received_at |-> thr[t].received_at,
                   fired |-> c.fired, reason |-> c.reason,
                   edge_event_id |-> 1, ev |-> c.ev, overlapped |-> thr[t].overlapped]
       IN thr' = [thr EXCEPT ![t].txn = Append(@, row), ![t].pc = "loop", ![t].cur = NoCur]
    /\ UNCHANGED <<cfg, now, events, lastId, relaySer, relayLog, evCount>>
    /\ UNCHANGED <<h, resp, getResp, edgeVars, armVars, unitVars, rdr, lastFire, readTags>>

\* A statement that needs the write lock while another thread holds it for
\* longer than the busy timeout: sqlite3.OperationalError, answer 500.
ConcBusy(t) ==
    /\ dbLock \notin {0, t}
    /\ \/ thr[t].pc = "insert"
       \/ thr[t].pc = "retain" /\ enforce_retention(cfg, events) # events
    /\ thr' = [thr EXCEPT ![t] = Raised]
    /\ UNCHANGED <<cfg, now, events, lastId, relaySer, relayLog, evCount, dbLock>>
    /\ UNCHANGED <<h, resp, getResp, edgeVars, armVars, unitVars, rdr, lastFire, readTags>>

\* conn.commit(), line 528, in thread t.
ConcCommit(t) ==
    /\ thr[t].pc = "loop"
    /\ events' = events \o thr[t].txn
    /\ lastId' = lastId + Len(thr[t].txn)
    /\ dbLock' = IF dbLock = t THEN 0 ELSE dbLock
    /\ thr' = [thr EXCEPT ![t].pc = "retain", ![t].txn = <<>>]
    /\ UNCHANGED <<cfg, now, relaySer, relayLog, evCount>>
    /\ UNCHANGED <<h, resp, getResp, edgeVars, armVars, unitVars, rdr, lastFire, readTags>>

\* enforce_retention(conn) and the response, lines 530-534, in thread t.
ConcRetain(t) ==
    /\ thr[t].pc = "retain"
    /\ enforce_retention(cfg, events) # events => dbLock = 0
    /\ events' = enforce_retention(cfg, events)
    /\ thr' = [thr EXCEPT ![t] = IdleThread]
    /\ UNCHANGED <<cfg, now, lastId, relaySer, relayLog, evCount, dbLock>>
    /\ UNCHANGED <<h, resp, getResp, edgeVars, armVars, unitVars, rdr, lastFire, readTags>>

\* The wall clock advances, whatever the threads are doing.
ConcTick(d) ==
    /\ now + d <= MaxConcTime
    /\ now' = now + d
    /\ UNCHANGED <<cfg, events, lastId, relaySer, relayLog, evCount, thr, dbLock>>
    /\ UNCHANGED <<h, resp, getResp, edgeVars, armVars, unitVars, rdr, lastFire, readTags>>

(***************************************************************************)
(* The serial lines: the reader line of the outbox agents (CF661Reader,    *)
(* InnodReader) and the relay line of the central service, call by call.   *)
(***************************************************************************)
\* What ser.read(256) does: bytes, nothing, or serial.SerialException.
ReadOutcomes == {"data", "empty", "error"}

\* The last _feed_buffer call: the handle before it, whether open() ran, how
\* many serial.Serial(...) attempts failed before one succeeded, whether the
\* read raised, and whether the call before it had raised.
NoRead == [called |-> FALSE, serBefore |-> "none", opened |-> FALSE, retries |-> 0,
           failed |-> FALSE, prevFailed |-> FALSE]

\* The reader after main has called reader.open(): calls counts _feed_buffer
\* calls, opens the handles opened so far.
ReaderOpened == [ser |-> "open", opens |-> 1, calls |-> 0, last |-> NoRead]

\* CF661Reader._feed_buffer / InnodReader._feed_buffer with open(): retries
\* is the number of failed attempts open() sleeps through before it succeeds.
FeedBuffer(retries, outcome) ==
    /\ LET opened == rdr.ser = "none"
       IN rdr' = [ser |-> IF outcome = "error" THEN "none" ELSE "open",
                  opens |-> rdr.opens + (IF opened THEN 1 ELSE 0),
                  calls |-> rdr.calls + 1,
                  last |-> [called |-> TRUE, serBefore |-> rdr.ser, opened |-> opened,
                            retries |-> IF opened THEN retries ELSE 0,
                            failed |-> outcome = "error",
                            prevFailed |-> rdr.last.failed]]
    /\ UNCHANGED <<srvVars, edgeVars, armVars, unitVars, thr, dbLock, lastFire, readTags>>

\* The last fire_momentary call: the connection before it, the channel, what
\* the call did (as NoRelay), and whether the call before it had dropped the
\* connection.
NoFire == [called |-> FALSE, serBefore |-> "none", channel |-> 0, r |-> NoRelay("none"),
           prevDropped |-> FALSE, calls |-> 0]

\* RELAY_BOARD.fire_momentary(channel)
FireRelay(channel, line) ==
    /\ LET r == fire_momentary(relaySer, channel, line.openOk, line.wr)
       IN /\ relaySer' = r.ser
          /\ lastFire' = [called |-> TRUE, serBefore |-> relaySer, channel |-> channel, r |-> r,
                          prevDropped |-> lastFire.called /\ lastFire.r.writeTried
                                          /\ ~lastFire.r.flushed,
                          calls |-> lastFire.calls + 1]
    /\ UNCHANGED <<cfg, now, events, lastId, h, relayLog, resp, getResp, evCount>>
    /\ UNCHANGED <<edgeVars, armVars, unitVars, thr, dbLock, rdr, readTags>>

(***************************************************************************)
(* An outbox agent and the central service together: the agent posts its   *)
(* unsent rows, and posts them again when no answer has reached it.        *)
(***************************************************************************)
\* The tags of the reads in the outbox, by read number.
ReadTagInputs ==
    { <<a>> : a \in {"K1", "U9"} } \cup { <<a, b>> : a \in {"K1", "U9"}, b \in {"K1", "U9"} }

\* The rows get_unsent returns for the next request.
Batch == get_unsent(store, BatchSize)

\* {"id": e_id, "ts": ts, "tag": tag} of Sender.send_events: ts is the
\* datetime.now(timezone.utc).isoformat() of the read, made at clock 0.
EdgeEvent(row) ==
    [shape |-> "object", id |-> row.id, tag |-> readTags[row.rd],
     ts |-> [kind |-> "aware", t |-> 0]]

\* The send interval has elapsed and rows are unsent: requests.post; the
\* request reaches the center.
ResendPost ==
    /\ Batch # <<>>
    /\ evCount + Len(Batch) <= MaxResendEv
    /\ PostBegin("gate")

\* The center handles the next event of the request.
ResendEvent(line) ==
    /\ h.pc = "loop"
    /\ h.n < Len(Batch)
    /\ HandleEvent(EdgeEvent(Batch[h.n + 1]), line)

\* The center has handled the whole array.
ResendFinish ==
    /\ h.n = Len(Batch)
    /\ PostFinish

\* The answer reaches the agent within the timeout: mark_sent.  When the
\* clock advances or the next request is made first, the answer was lost.
EdgeAck ==
    /\ h.pc = "idle" /\ resp.status = 200
    /\ Batch # <<>>
    /\ store' = mark_sent(store, Ids(Batch))
    /\ UNCHANGED <<variant, storeSeq, pending, seq, since, reads, acked, trimmed, lastSend>>
    /\ UNCHANGED <<srvVars, armVars, unitVars, scenVars>>

(***************************************************************************)
(* The arming decision on its own inputs.                                  *)
(***************************************************************************)
Hours == 0..23

ScheduleInputs ==
    { Schedule(m) : m \in {"missing", "always", "never", "other"} }
    \cup { Window(st, en) : st \in Hours, en \in Hours }

\* is_reader_armed applied to the inputs.
ArmCheck ==
    /\ ~armOut.done
    /\ armOut' = [done |-> TRUE, armed |-> is_reader_armed(armIn.sched, armIn.hour)]
    /\ UNCHANGED armIn
    /\ UNCHANGED <<srvVars, edgeVars, unitVars, scenVars>>

(***************************************************************************)
(* Initial states.                                                         *)
(***************************************************************************)
ServerIdle ==
    /\ now = 0
    /\ events = <<>>
    /\ lastId = 0
    /\ h = IdleHandler
    /\ relaySer = "none"
    /\ relayLog = {}
    /\ resp = NoResponse
    /\ getResp = NoGet
    /\ evCount = 0

EdgeIdle ==
    /\ store = <<>>
    /\ storeSeq = 0
    /\ pending = <<>>
    /\ seq = 0
    /\ reads = 0
    /\ acked = {}
    /\ trimmed = {}
    /\ lastSend = NoSend

ArmIdle ==
    /\ armIn = [sched |-> NoSchedule, hour |-> 0]
    /\ armOut = [done |-> FALSE, armed |-> FALSE]

UnitIdle ==
    /\ obx = NoCall
    /\ dec = NoStream

ThreadsIdle ==
    /\ thr = [t \in Threads |-> IdleThread]
    /\ dbLock = 0

LinesIdle ==
    /\ rdr = ReaderOpened
    /\ lastFire = NoFire

ServerInit ==
    /\ cfg \in ServerConfigs
    /\ ServerIdle
    /\ variant = "cf661" /\ since = SendInterval /\ EdgeIdle
    /\ ArmIdle
    /\ UnitIdle
    /\ ThreadsIdle /\ LinesIdle /\ readTags = <<>>

EdgeInit ==
    /\ variant \in EdgeVariants
    /\ since = IF variant = "chafon" THEN 0 ELSE SendInterval
    /\ EdgeIdle
    /\ cfg = ConfigFiltersOn /\ ServerIdle
    /\ ArmIdle
    /\ UnitIdle
    /\ ThreadsIdle /\ LinesIdle /\ readTags = <<>>

ArmInit ==
    /\ armIn \in [sched : ScheduleInputs, hour : Hours]
    /\ armOut = [done |-> FALSE, armed |-> FALSE]
    /\ cfg = ConfigFiltersOn /\ ServerIdle
    /\ variant = "cf661" /\ since = SendInterval /\ EdgeIdle
    /\ UnitIdle
    /\ ThreadsIdle /\ LinesIdle /\ readTags = <<>>

OutboxInit ==
    /\ variant \in OutboxVariants
    /\ since = SendInterval /\ EdgeIdle
    /\ obx = NoCall /\ dec = NoStream
    /\ cfg = ConfigFiltersOn /\ ServerIdle
    /\ ArmIdle
    /\ ThreadsIdle /\ LinesIdle /\ readTags = <<>>

DecoderInit ==
    /\ variant \in EdgeVariants
    /\ dec \in { [NoStream EXCEPT !.stream = st] : st \in Streams(variant) }
    /\ obx = NoCall
    /\ since = IF variant = "chafon" THEN 0 ELSE SendInterval
    /\ EdgeIdle
    /\ cfg = ConfigFiltersOn /\ ServerIdle
    /\ ArmIdle
    /\ ThreadsIdle /\ LinesIdle /\ readTags = <<>>

ServerNext ==
    \/ \E body \in BadBodies : PostBad(body)
    \/ \E reader_id \in Readers : PostBegin(reader_id)
    \/ \E ev \in EventInputs, line \in LineInputs :
          evCount < MaxEv /\ HandleEvent(ev, line)
    \/ PostFinish
    \/ \E limit \in LimitInputs : ListEvents(limit)
    \/ \E d \in 1..MaxTime : Tick(d)

\* The central service under arbitrary requests.
Spec == ServerInit /\ [][ServerNext]_vars

\* The batch scenario: up to MaxPrior earlier reads, one at a time, then one
\* batch of up to MaxBatch reads of the known tag, then queries.
BatchNext ==
    \/ evCount < MaxPrior + MaxBatch /\ PostBegin("gate")
    \/ \E ev \in BatchEventInputs, line \in WorkingLine :
          /\ evCount < MaxPrior + MaxBatch
          /\ evCount < MaxPrior => h.n = 0
          /\ h.n < MaxBatch
          /\ HandleEvent(ev, line)
    \/ PostFinish
    \/ \E limit \in BatchLimitInputs : ListEvents(limit)
    \/ \E d \in 1..MaxTime : Tick(d)

SpecBatch == ServerInit /\ [][BatchNext]_vars

\* The edge agents with a center that answers as it likes.
EdgeNext ==
    \/ \E got \in BOOLEAN, dt \in 0..1, outcome \in HttpOutcomes : OutboxLoop(got, dt, outcome)
    \/ \E n \in 0..2, dt \in 0..1, outcome \in HttpOutcomes : ChafonLoop(n, dt, outcome)
    \/ Restart

SpecEdge == EdgeInit /\ [][EdgeNext]_vars

\* The outbox agents alone, with the loop of main scheduled fairly: "while
\* True" never ends and every iteration sleeps 0.02 s, so iterations in which
\* the clock has advanced keep happening.
EdgeLiveInit == EdgeInit /\ variant \in OutboxVariants

EdgeLiveNext ==
    \/ \E got \in BOOLEAN, dt \in 0..1, outcome \in HttpOutcomes : OutboxLoop(got, dt, outcome)
    \/ Restart

LoopAdvances == \E got \in BOOLEAN, outcome \in HttpOutcomes : OutboxLoop(got, 1, outcome)

SpecEdgeLive == EdgeLiveInit /\ [][EdgeLiveNext]_vars /\ WF_vars(LoopAdvances)

\* The arming decision for every schedule entry and hour.
SpecArmed == ArmInit /\ [][ArmCheck]_vars

\* The outbox under arbitrary calls of its three operations.
OutboxNext ==
    \/ OutboxAppend
    \/ \E ids \in MarkInputs : OutboxMarkSent(ids)
    \/ \E limit \in UnsentLimits : OutboxUnsent(limit)

SpecOutbox == OutboxInit /\ [][OutboxNext]_vars

\* A decoder fed a serial stream in chunks of any size.
DecoderNext == \E k \in ChunkInputs : DecodeStep(k)

SpecDecoder == DecoderInit /\ [][DecoderNext]_vars

\* The threaded service: requests of up to MaxConcEv events in all.
ConcInit ==
    /\ cfg = ConfigFiltersOn
    /\ ServerIdle
    /\ variant = "cf661" /\ since = SendInterval /\ EdgeIdle
    /\ ArmIdle
    /\ UnitIdle
    /\ ThreadsIdle /\ LinesIdle /\ readTags = <<>>

ConcNext ==
    \/ \E t \in Threads : ConcBegin(t, "gate")
    \/ \E t \in Threads, tag \in ConcTagInputs : evCount < MaxConcEv /\ ConcDecide(t, tag)
    \/ \E t \in Threads, openOk \in BOOLEAN : ConcEnsureOpen(t, openOk)
    \/ \E t \in Threads, ok \in BOOLEAN : ConcWrite(t, ok)
    \/ \E t \in Threads, ok \in BOOLEAN : ConcFlush(t, ok)
    \/ \E t \in Threads : ConcInsert(t)
    \/ \E t \in Threads : ConcBusy(t)
    \/ \E t \in Threads : ConcCommit(t)
    \/ \E t \in Threads : ConcRetain(t)
    \/ \E d \in 1..MaxConcTime : ConcTick(d)

SpecConc == ConcInit /\ [][ConcNext]_vars

\* The two serial lines under any sequence of calls and line faults.
LinesInit ==
    /\ variant \in OutboxVariants
    /\ since = SendInterval /\ EdgeIdle
    /\ cfg = ConfigFiltersOn /\ ServerIdle
    /\ ArmIdle
    /\ UnitIdle
    /\ ThreadsIdle /\ LinesIdle /\ readTags = <<>>

LinesNext ==
    \/ \E retries \in 0..1, outcome \in ReadOutcomes :
          rdr.calls < MaxCalls /\ FeedBuffer(retries, outcome)
    \/ \E channel \in 1..5, line \in LineInputs :
          lastFire.calls < MaxCalls /\ FireRelay(channel, line)

SpecLines == LinesInit /\ [][LinesNext]_vars

\* An outbox agent with one or two reads stored, and the center.
ResendInit ==
    /\ cfg \in ResendConfigs
    /\ ServerIdle
    /\ readTags \in ReadTagInputs
    /\ variant = "cf661" /\ since = SendInterval
    /\ store = [i \in 1..Len(readTags) |-> [id |-> i, rd |-> i, sent |-> FALSE]]
    /\ storeSeq = Len(readTags) /\ reads = Len(readTags)
    /\ pending = <<>> /\ seq = 0 /\ acked = {} /\ trimmed = {} /\ lastSend = NoSend
    /\ ArmIdle
    /\ UnitIdle
    /\ ThreadsIdle /\ LinesIdle

ResendNext ==
    \/ ResendPost
    \/ \E line \in LineInputs : ResendEvent(line)
    \/ ResendFinish
    \/ EdgeAck
    \/ \E d \in 1..MaxTime : Tick(d)

SpecResend == ResendInit /\ [][ResendNext]_vars

(***************************************************************************)
(* Properties.                                                             *)
(***************************************************************************)
\* The per-event results of the request being handled or just answered.
Results == IF h.pc = "loop" THEN h.results ELSE resp.results

Rows == events \o h.txn

\* The event reached the relay step: the four earlier checks passed.
Passed(r) == r.g.known /\ r.g.armed /\ ~r.g.late /\ ~r.g.dup

\* The relay can work for the event: enabled, a channel of the board, and the
\* serial line did not fail when it was used.
RelayWorks(r) ==
    /\ cfg.relay_enabled
    /\ r.g.channel \in RelayChannels
    /\ ~r.g.relay.openFailed
    /\ r.g.relay.writeTried => r.g.relay.flushed

\* receivedAt - tsClient > ignore_late_sec for a timestamp that parses.
Parses(ts) == ts.kind \in {"aware", "naive"}

TooOld(r) == Parses(r.g.ts) /\ r.g.received_at - r.g.ts.t > cfg.ignore_late_sec

\* A prior row of the pair exists within the window (absolute difference to
\* the most recent one).
InWindow(r) == r.g.hasPrior /\ Abs(r.g.received_at - r.g.priorAt) <= cfg.window_sec

\* C1: on every edge variant, whatever happens (restart included), every
\* decoded read that the center has not acknowledged and that the capacity
\* trim has not deleted is still pending on the edge.
C1_UnackedStillPending ==
    \A rd \in 1..reads : rd \notin acked /\ rd \notin trimmed => rd \in PendingReads

\* C2: on every edge variant, a 2xx answer leaves no record of the request
\* pending, and a network error or a non-2xx answer leaves the pending set
\* as it was before the attempt.
C2_MarkedIff2xx ==
    lastSend.valid =>
        /\ Is2xx(lastSend.status) => lastSend.after = lastSend.before \ lastSend.request
        /\ ~Is2xx(lastSend.status) => lastSend.after = lastSend.before

\* C3: the recorded reason of every event with a tag is that of the first
\* matching condition in the order unknown_tag, outside_schedule, too_late,
\* duplicate, relay; an unknown tag yields unknown_tag and fired=false whatever
\* else holds; the relay line is touched only after the four checks passed.
C3_FirstMatchWins ==
    /\ \A i \in 1..Len(Results) :
         LET r == Results[i] IN
         /\ r.reason = IF r.tag \notin KNOWN_TAGS THEN "unknown_tag"
                       ELSE IF ~r.g.armed THEN "outside_schedule"
                       ELSE IF r.g.late THEN "too_late"
                       ELSE IF r.g.dup THEN "duplicate"
                       ELSE r.g.relay.reason
         /\ r.tag \notin KNOWN_TAGS => r.reason = "unknown_tag" /\ ~r.fired
         /\ r.g.armed = is_reader_armed(cfg.schedules[r.g.reader_id], HourOf(r.g.received_at))
         /\ (r.g.relay.opens > 0 \/ r.g.relay.writeTried) => Passed(r)
         /\ Passed(r) => r.g.relay.reason \in {"ok", "relay_disabled",
                                               "no_channel_for_reader", "relay_error"}
    /\ \A e \in relayLog : e.passed

\* C3 witness: an event that is not armed and too old at once, with a prior
\* read of its pair, is recorded outside_schedule.
C3_Witness ==
    \E i \in 1..Len(Results) :
        LET r == Results[i] IN
        /\ r.g.known /\ ~r.g.armed /\ TooOld(r) /\ r.g.hasPrior
        /\ cfg.ignore_late_sec > 0
        /\ r.reason = "outside_schedule"

\* C4: at the relay step fired=true with reason ok exactly when the command
\* was written and flushed; a disabled relay gives relay_disabled, a reader
\* without channel no_channel_for_reader without serial access, a failed open
\* or write relay_error, the open being tried once; in every audit row
\* fired=true iff reason=ok.
C4_RelayOutcome ==
    /\ \A i \in 1..Len(Results) :
         LET r == Results[i]
             rl == r.g.relay
         IN
         /\ r.fired <=> r.reason = "ok"
         /\ r.fired <=> (Passed(r) /\ rl.written /\ rl.flushed)
         /\ r.fired => \E e \in relayLog : e.ev = r.g.ev /\ e.flushed /\ e.channel = r.g.channel
         /\ Passed(r) =>
              /\ ~cfg.relay_enabled =>
                    r.reason = "relay_disabled" /\ rl.opens = 0 /\ ~rl.writeTried
              /\ (cfg.relay_enabled /\ r.g.channel = NoChannel) =>
                    /\ r.reason = "no_channel_for_reader"
                    /\ rl.opens = 0 /\ ~rl.writeTried /\ rl.ser = r.g.serBefore
              /\ rl.openFailed => r.reason = "relay_error" /\ rl.opens = 1 /\ ~rl.writeTried
              /\ (rl.writeTried /\ ~(rl.written /\ rl.flushed)) => r.reason = "relay_error"
              /\ rl.opens <= 1
    /\ \A i \in 1..Len(Rows) : Rows[i].fired <=> Rows[i].reason = "ok"

\* C4 witness: a write that fails on an already open relay line is recorded
\* relay_error.
C4_Witness ==
    \E i \in 1..Len(Results) :
        LET r == Results[i] IN
        /\ Passed(r) /\ r.g.serBefore = "open" /\ r.g.relay.writeTried
        /\ ~r.g.relay.flushed /\ r.reason = "relay_error" /\ ~r.fired

\* C5: every answered request has added exactly one row per event with a tag
\* that it handled, and the count of a response equals the rows added.
C5_OneRowPerAttempt ==
    (h.pc = "idle" /\ resp.status # 0) =>
        /\ resp.added = resp.attempts
        /\ resp.status = 200 => resp.count = resp.added

ArmedRef(sc, hour) ==
    CASE sc.mode = "missing" -> TRUE
      [] sc.mode = "always" -> TRUE
      [] sc.mode = "never" -> FALSE
      [] sc.mode = "window" /\ sc.start_hour = sc.end_hour -> TRUE
      [] sc.mode = "window" /\ sc.start_hour < sc.end_hour ->
            hour \in sc.start_hour..(sc.end_hour - 1)
      [] sc.mode = "window" /\ sc.start_hour > sc.end_hour ->
            hour \notin sc.end_hour..(sc.start_hour - 1)
      [] OTHER -> TRUE

\* C8: for every schedule entry and local hour 0..23 the arming decision is
\* the reference: always armed, never not, window with equal hours armed,
\* start < end armed iff start <= hour < end, start > end armed iff
\* hour >= start or hour < end (21 to 6: armed at 23 and 2, not at 10), no
\* entry armed.
C8_ArmingReference ==
    armOut.done =>
        /\ armIn.sched.mode # "other" => armOut.armed = ArmedRef(armIn.sched, armIn.hour)
        /\ (armIn.sched = Window(21, 6) /\ armIn.hour \in {23, 2}) => armOut.armed
        /\ (armIn.sched = Window(21, 6) /\ armIn.hour = 10) => ~armOut.armed

\* C8 witness: the night window 21 to 6 is armed at hour 2.
C8_Witness ==
    armOut.done /\ armIn.sched = Window(21, 6) /\ armIn.hour = 2 /\ armOut.armed

\* A request answered 200 with three results for the known tag on an armed
\* reader, not late, with a working relay and no earlier read in the window.
C9_Batch ==
    /\ h.pc = "idle" /\ resp.status = 200 /\ resp.count = 3
    /\ \A i \in 1..3 :
         LET r == resp.results[i] IN r.g.known /\ r.g.armed /\ ~TooOld(r) /\ RelayWorks(r)
    /\ ~InWindow(resp.results[1])

\* The rows a following GET /api/events?limit=3 has to return.
C9_GetMatches ==
    /\ Len(getResp.rows) = 3
    /\ \A i \in 1..3 :
         LET row == getResp.rows[i]
             r == resp.results[4 - i]
         IN /\ row.id = r.db_id /\ row.tag = r.tag
            /\ row.fired = r.fired /\ row.reason = r.reason
    /\ getResp.rows[1].id > getResp.rows[2].id /\ getResp.rows[2].id > getResp.rows[3].id

\* C9 as stated: such a batch returns count=3 with every result fired=true and
\* reason ok, and a following GET /api/events?limit=3 returns those three rows
\* newest first.
C9_BatchAllOk_AsStated ==
    C9_Batch =>
        /\ \A i \in 1..3 : resp.results[i].fired /\ resp.results[i].reason = "ok"
        /\ (getResp.fresh /\ getResp.limit = 3) => C9_GetMatches

\* C9 amended: such a batch returns count=3; the first result is fired=true
\* with reason ok; the second and third are fired=false with reason duplicate
\* when dedup.window_sec > 0 and fired=true with reason ok when it is <= 0; a
\* following GET /api/events?limit=3 returns those three rows newest first
\* when max_events <= 0 or max_events >= 3.
C9_BatchFirstOkRestDuplicate ==
    C9_Batch =>
        /\ resp.results[1].fired /\ resp.results[1].reason = "ok"
        /\ \A i \in 2..3 :
             IF cfg.window_sec > 0
             THEN ~resp.results[i].fired /\ resp.results[i].reason = "duplicate"
             ELSE resp.results[i].fired /\ resp.results[i].reason = "ok"
        /\ (getResp.fresh /\ getResp.limit = 3 /\ (cfg.max_events <= 0 \/ cfg.max_events >= 3))
              => C9_GetMatches

\* C9 witness: such a batch after an earlier read outside the window, then
\* the GET.
C9_Witness ==
    /\ C9_Batch /\ cfg.window_sec > 0 /\ resp.results[1].g.hasPrior
    /\ getResp.fresh /\ getResp.limit = 3 /\ C9_GetMatches
    /\ resp.results[2].reason = "duplicate"

\* C10: a body that is not valid JSON is answered 400 invalid_json, a body that
\* is valid JSON without a string reader_id or a list events 400
\* missing_reader_or_events, and neither adds a row nor writes to the relay.
C10_BadBodyIs400 ==
    resp.body \in BadBodies =>
        /\ resp.status = 400
        /\ resp.error = IF resp.body = "invalid_json" THEN "invalid_json"
                        ELSE "missing_reader_or_events"
        /\ resp.added = 0 /\ resp.wrote = 0

\* C11: after any sequence of add_event calls, mixed with the other outbox
\* calls, the outbox holds at most capacity rows, and they are the rows with the
\* capacity highest localIds assigned so far, in ascending order; an add_event
\* appends one unsent row, leaves the rows it keeps as they were and deletes
\* only rows with lower localIds than every row kept, sent or not.
C11_KeepsMostRecent ==
    /\ Len(store) <= OutboxCapacity
    /\ Ids(store) = { k \in 1..storeSeq : k > storeSeq - OutboxCapacity }
    /\ \A i \in 1..(Len(store) - 1) : store[i].id < store[i + 1].id
    /\ obx.op = "add_event" =>
         /\ Last(store).id = storeSeq /\ ~Last(store).sent
         /\ \A i \in 1..(Len(store) - 1) : store[i] \in RowSet(obx.before)
         /\ \A r \in RowSet(obx.before) : r \notin RowSet(store) => r.id < store[1].id

\* C11 witness: an add_event on a full outbox deletes the lowest row, which is
\* unsent, and keeps a sent row with a higher localId.
C11_Witness ==
    /\ obx.op = "add_event" /\ Len(obx.before) = OutboxCapacity
    /\ ~obx.before[1].sent /\ obx.before[2].sent
    /\ store[1] = obx.before[2] /\ Len(store) = OutboxCapacity

\* C12: mark_sent(ids) sets sent for exactly the rows with the given ids and
\* changes nothing else, changes nothing at all for an empty list, and
\* get_unsent afterwards returns none of the given ids; get_unsent changes
\* nothing and returns unsent rows only; no outbox call turns sent back to
\* false in a row it keeps.
C12_MarkSentOnlyGiven ==
    /\ obx.op = "mark_sent" =>
         /\ Len(store) = Len(obx.before)
         /\ \A i \in 1..Len(store) :
              store[i] = IF obx.before[i].id \in obx.ids
                         THEN [obx.before[i] EXCEPT !.sent = TRUE]
                         ELSE obx.before[i]
         /\ obx.ids = {} => store = obx.before
         /\ \A limit \in 0..OutboxCapacity :
              Ids(get_unsent(store, limit)) \cap obx.ids = {}
    /\ obx.op = "get_unsent" =>
         /\ store = obx.before
         /\ Len(obx.ret) <= obx.limit
         /\ \A r \in RowSet(obx.ret) : r \in RowSet(store) /\ ~r.sent
    /\ obx.op # "none" =>
         \A b \in RowSet(obx.before), r \in RowSet(store) : (b.id = r.id /\ b.sent) => r.sent

\* C12 witness: mark_sent with one id of an unsent row and one id that is not
\* stored, while another unsent row stays unsent.
C12_Witness ==
    /\ obx.op = "mark_sent"
    /\ \E i \in 1..Len(store) : obx.before[i].id \in obx.ids /\ ~obx.before[i].sent
                                /\ store[i].sent
    /\ \E i \in 1..Len(store) : store[i].id \notin obx.ids /\ ~store[i].sent
    /\ \E k \in obx.ids : k \notin Ids(store)

\* The ids the audit log has to hold when ids 1..lastId were committed and
\* rows below the bound lower are deleted if lower is positive.
KeptIds(lower) == { k \in 1..lastId : lower > 0 => k >= lower }

\* C13 as stated: the committed audit log holds exactly the rows with
\* id >= maxId - max_events + 1 of those ever committed, at most max_events of
\* them, and all of them when that bound is not positive.
C13_Retention_AsStated ==
    /\ Ids(events) = KeptIds(lastId - cfg.max_events + 1)
    /\ Len(events) <= cfg.max_events

\* C13 amended: the same when max_events > 0; with max_events <= 0 retention
\* is off and no row is ever deleted.
C13_Retention ==
    /\ cfg.max_events > 0 =>
         /\ Ids(events) = KeptIds(lastId - cfg.max_events + 1)
         /\ Len(events) <= cfg.max_events
    /\ cfg.max_events <= 0 => Ids(events) = 1..lastId
    /\ \A i \in 1..(Len(events) - 1) : events[i].id < events[i + 1].id

\* C13 witness: a batch has just been processed and the log, at its cap, has
\* lost its oldest rows.
C13_Witness ==
    /\ h.pc = "idle" /\ resp.status = 200 /\ resp.added > 0
    /\ cfg.max_events > 0 /\ Len(events) = cfg.max_events
    /\ events[1].id = lastId - cfg.max_events + 1 /\ events[1].id > 1

RECURSIVE DecodeAll(_, _)
\* The whole of buf given to the decoder of agent v at once, and the decoder
\* called until a call emits nothing: the tags in order.
DecodeAll(v, buf) ==
    LET r == Decode(v, buf) IN
    IF r.tags = <<>> THEN <<>> ELSE r.tags \o DecodeAll(v, r.buf)

\* The part of the stream that has not arrived yet.
Rest == SubSeq(dec.stream, dec.pos + 1, Len(dec.stream))

\* C14: for each of the three decoders and every stream, once the stream has
\* arrived one byte at a time with a decode call after each byte, the tags
\* emitted are those of the whole stream decoded at once; and however the
\* stream is cut into chunks, the tags emitted so far followed by those the
\* buffer and the rest of the stream still yield are the same sequence.
C14_ChunkingIrrelevant ==
    /\ (dec.bytewise /\ dec.pos = Len(dec.stream)) =>
          dec.out = DecodeAll(variant, dec.stream)
    /\ dec.out \o DecodeAll(variant, dec.buf \o Rest) = DecodeAll(variant, dec.stream)

\* C14 witness: a stream of noise and two frames has arrived byte by byte and
\* both tags were emitted.
C14_Witness ==
    /\ dec.bytewise /\ dec.pos = Len(dec.stream) /\ dec.stream # <<>>
    /\ dec.stream[1] = 170
    /\ Len(dec.out) = 2 /\ dec.out[1] # dec.out[2]

\* The tag a complete frame F of agent v carries: its EPC field in hex.
FrameTag(v, F) ==
    CASE v = "chafon" -> Hex(SubSeq(F, 5, 16))
      [] v = "cf661" -> Hex(SubSeq(F, 12, 11 + F[11]))
      [] OTHER -> Hex(SubSeq(F, 19, 30))

\* The stream is G followed by the frame F, G not empty.
EndsWith(F) ==
    /\ Len(dec.stream) > Len(F)
    /\ SubSeq(dec.stream, Len(dec.stream) - Len(F) + 1, Len(dec.stream)) = F

Garbage(F) == SubSeq(dec.stream, 1, Len(dec.stream) - Len(F))

\* Everything emitted once the decoder is called until it emits nothing.
Emitted == dec.out \o DecodeAll(variant, dec.buf)

HeaderLen(v) == CASE v = "chafon" -> 4 [] v = "cf661" -> 11 [] OTHER -> 4

\* Full length of the frame that starts at position idx of b: fixed for the
\* chafon reader, implied by the length byte of the header for the others.
FrameLenAt(v, b, idx) ==
    CASE v = "chafon" -> 18
      [] v = "cf661" -> 11 + b[idx + 11] + 2
      [] OTHER -> 4 + b[idx + 4]

\* The frame that starts at idx is not all there: header or body incomplete.
Incomplete(v, b, idx) ==
    \/ Len(b) - idx < HeaderLen(v)
    \/ Len(b) - idx < FrameLenAt(v, b, idx)

\* The buffer starts with a prefix whose frame is not all there.
Held(v, b) == find(b, Prefix(v), 0) = 0 /\ Incomplete(v, b, 0)

\* A frame of the INNOD reader below the minimum length carries no tag.
HasTag(v, F) == v = "innod" => Len(F) >= 32

\* C16: when the first prefix in the buffer starts a frame whose header or
\* body is incomplete, the call emits nothing and leaves the buffer from that
\* prefix onward; when the bytes that complete a held frame arrive, the next
\* call emits the tag of that frame first and removes the frame from the
\* buffer, so it is emitted once (a frame of the INNOD reader shorter than
\* MIN_FRAME_LEN has no tag and is removed without one).
C16_HeldUntilComplete ==
    dec.last.called =>
        LET b == dec.last.inBuf
            idx == find(b, Prefix(variant), 0)
        IN /\ (idx # -1 /\ Incomplete(variant, b, idx)) =>
                 /\ dec.last.tags = <<>>
                 /\ dec.last.outBuf = DelFront(b, idx)
           /\ (Held(variant, dec.last.prevBuf) /\ ~Incomplete(variant, b, 0)) =>
                 LET n == FrameLenAt(variant, b, 0)
                     F == SubSeq(b, 1, n)
                 IN /\ HasTag(variant, F) =>
                         /\ dec.last.tags # <<>>
                         /\ dec.last.tags[1] = FrameTag(variant, F)
                    /\ \E k \in n..Len(b) : dec.last.outBuf = DelFront(b, k)

\* C16 witness: after noise, a frame was held with its body incomplete, and
\* the call after its last bytes arrived emitted its tag, the only one so far.
C16_Witness ==
    /\ dec.last.called /\ dec.stream # <<>> /\ dec.stream[1] = 170
    /\ Held(variant, dec.last.prevBuf) /\ Len(dec.last.prevBuf) >= HeaderLen(variant)
    /\ ~Incomplete(variant, dec.last.inBuf, 0)
    /\ dec.last.tags # <<>>
    /\ dec.out = <<FrameTag(variant, SubSeq(dec.last.inBuf, 1,
                                            FrameLenAt(variant, dec.last.inBuf, 0)))>>
    /\ dec.last.outBuf = <<>>

\* C17: on every edge variant, an iteration of the main loop that finds
\* records pending makes a delivery attempt if the send interval has elapsed
\* since the last one or the pending records have reached the batch size.
C17_FlushOnEitherTrigger ==
    (lastSend.ran /\ lastSend.before # {} /\ (lastSend.due \/ lastSend.full))
        => lastSend.valid

\* C20: on every edge variant, whatever the center answers, the reads
\* awaiting delivery never number more than the outbox capacity.
C20_PendingBounded == Cardinality(PendingReads) <= OutboxCapacity

\* C18: for each decoder, a decode call emits the tag of every complete
\* frame in its buffer, so that a further call on what it leaves emits nothing.
C18_AllCompleteFramesEmitted ==
    dec.last.called => Decode(variant, dec.last.outBuf).tags = <<>>

\* C19: for each decoder, a decode call on a buffer without any occurrence of
\* the prefix leaves exactly the last prefixLength-1 bytes of it (all of it if
\* it is not longer), so the buffer stays shorter than the prefix under noise.
C19_NoiseTrimmed ==
    LET b == dec.last.inBuf
        n == Len(Prefix(variant)) - 1
    IN (dec.last.called /\ find(b, Prefix(variant), 0) = -1) =>
          /\ Len(dec.last.outBuf) <= n
          /\ dec.last.outBuf = SubSeq(b, IF Len(b) > n THEN Len(b) - n + 1 ELSE 1, Len(b))

\* The statement of C21 for a minimum frame length of min bytes.
ShortFrameDropped(min) ==
    (variant = "innod" /\ dec.last.called) =>
        LET b == dec.last.inBuf
            idx == find(b, Innod_PREFIX, 0)
        IN /\ (idx # -1 /\ ~Incomplete("innod", b, idx) /\ FrameLenAt("innod", b, idx) < min) =>
                 LET r == Decode("innod", DelFront(b, idx + FrameLenAt("innod", b, idx)))
                 IN dec.last.tags = r.tags /\ dec.last.outBuf = r.buf
           /\ \A i \in 1..Len(dec.last.tags) :
                 \E p \in 0..(Len(b) - 1) :
                     /\ find(b, Innod_PREFIX, p) = p
                     /\ ~Incomplete("innod", b, p)
                     /\ FrameLenAt("innod", b, p) >= min
                     /\ dec.last.tags[i] = Hex(Slice(b, p + 18, p + 30))
                     /\ dec.last.outBuf = DelFront(b, p + FrameLenAt("innod", b, p))

\* C21 as stated: on the INNOD reader a complete frame shorter than header +
\* EPC offset + EPC size + trailer = 4 + 18 + 12 + 2 bytes is consumed
\* without a tag and decoding goes on right after it in the same call, and
\* every tag emitted comes from a frame of at least that length.
C21_ShortFrameDropped_AsStated == ShortFrameDropped(4 + 18 + 12 + 2)

\* C21 amended: the same with the minimum EPC offset + EPC size + trailer =
\* 18 + 12 + 2 bytes, the EPC offset being counted from the start of the
\* frame: a complete frame shorter than that is consumed without a tag, the
\* call goes on with the bytes right after it, and every tag emitted is the
\* EPC field of a complete frame of at least that length.
C21_ShortFrameDropped == ShortFrameDropped(18 + 12 + 2)

\* C21 witness: one call finds a malformed short frame in front of a complete
\* frame, drops the first and emits the tag of the second.
C21_Witness ==
    /\ variant = "innod" /\ dec.last.called
    /\ dec.last.inBuf = InnodShortFrame \o InnodFrame(EpcA)
    /\ dec.last.tags = <<Hex(EpcA)>> /\ dec.last.outBuf = <<>>

\* The text consists of uppercase hexadecimal digits.
UpperHex(t) == \A k \in 1..Len(t) : \E d \in 1..16 : t[k] = HexDigits[d]

\* The statement of C22, for every complete frame (all) or for those that
\* carry a tag: the call on a buffer whose first prefix starts a complete
\* frame emits the EPC field of that frame first and takes exactly the frame
\* out of the buffer (the chafon decoder goes on behind it in the same call).
FrameDecoded(all) ==
    dec.last.called =>
        LET b == dec.last.inBuf
            idx == find(b, Prefix(variant), 0)
        IN (idx # -1 /\ ~Incomplete(variant, b, idx)) =>
              LET n == FrameLenAt(variant, b, idx)
                  F == SubSeq(b, idx + 1, idx + n)
                  rest == SubSeq(b, idx + n + 1, Len(b))
              IN (all \/ HasTag(variant, F)) =>
                    /\ dec.last.tags # <<>>
                    /\ dec.last.tags[1] = FrameTag(variant, F)
                    /\ UpperHex(dec.last.tags[1])
                    /\ Len(dec.last.tags[1]) =
                          2 * (IF variant = "cf661" THEN F[11] ELSE 12)
                    /\ IF variant = "chafon"
                       THEN /\ Tail(dec.last.tags) = Decode(variant, rest).tags
                            /\ dec.last.outBuf = Decode(variant, rest).buf
                       ELSE /\ Len(dec.last.tags) = 1
                            /\ dec.last.outBuf = rest

\* C22 as stated: for a complete frame starting at a prefix the decoder
\* consumes exactly the frame and emits its EPC field in uppercase hex:
\* variant A 18 bytes and bytes 4..15; variant B 11 + L + 2 bytes and the L
\* bytes from offset 11, L at offset 10; variant C 4 + L bytes and the 12
\* bytes at offset 18 whatever L declares, L at offset 3.
C22_FrameDecoded_AsStated == FrameDecoded(TRUE)

\* C22 amended: the same, for variant C when 4 + L is at least 32; a
\* complete frame of variant C with 4 + L below 32 is consumed, 4 + L bytes,
\* and nothing of it is emitted.
C22_FrameDecoded == FrameDecoded(FALSE)

\* C22 witness: a call on noise followed by a complete frame of variant B
\* with a 2-byte EPC emits B1B2 and leaves the buffer empty.
C22_Witness ==
    /\ variant = "cf661" /\ dec.last.called
    /\ dec.last.inBuf = Noise(5) \o CF661Frame(<<177, 178>>)
    /\ dec.last.tags = << <<"B", "1", "B", "2">> >> /\ dec.last.outBuf = <<>>

\* C23: the events of one request are handled in the order of the array:
\* results and rows follow that order with increasing db_id, every row of the
\* request carries the one receivedAt of the request, and the dedup check of
\* an event sees the rows of the earlier events of the same request, so that
\* with dedup on a later read of the same tag meets a prior row at distance 0.
C23_ArrayOrder ==
    /\ \A i \in 1..(Len(Results) - 1) :
          /\ Results[i].g.ev < Results[i + 1].g.ev
          /\ Results[i].db_id < Results[i + 1].db_id
    /\ \A i \in 1..Len(Results) : Results[i].g.received_at = Results[1].g.received_at
    /\ Len(h.txn) = Len(h.results)
    /\ \A i \in 1..Len(h.txn) :
          /\ h.txn[i].ev = h.results[i].g.ev
          /\ h.txn[i].id = h.results[i].db_id
          /\ h.txn[i].received_at = h.received_at
          /\ h.txn[i].reason = h.results[i].reason
    /\ \A i \in 1..Len(Results) : \A j \in 1..(i - 1) :
          Results[j].tag = Results[i].tag =>
              /\ Results[i].g.hasPrior
              /\ Results[i].g.priorAt = Results[i].g.received_at
              /\ cfg.window_sec > 0 => Results[i].g.dup
    /\ \A e \in relayLog : \A i \in 1..Len(Results) :
          (e.ev > Results[i].g.ev /\ i < Len(Results)) => e.ev >= Results[i + 1].g.ev

\* C23 witness: a batch of three reads of one tag, none before it; the first
\* fired the relay and the second and third met its uncommitted row.
C23_Witness ==
    /\ h.pc = "loop" /\ Len(h.results) = 3
    /\ ~h.results[1].g.hasPrior /\ h.results[1].fired
    /\ \A i \in 2..3 : h.results[i].reason = "duplicate"
                         /\ h.results[i].g.priorAt = h.received_at

\* The audit rows of the threaded service: committed, or in a transaction.
ConcRows == RowSet(events) \cup UNION { RowSet(thr[t].txn) : t \in Threads }

\* C24: with dedup on, two reads of one (readerId, tagId) received within the
\* dedup window of each other are both classified ok only when their requests
\* were handled concurrently; requests handled one after the other never are.
\* That concurrent requests can both pass the check before either row is
\* committed, both be classified ok and fire the relay twice, is the witness.
C24_DoubleOkOnlyConcurrent ==
    cfg.window_sec > 0 =>
        \A a \in ConcRows, b \in ConcRows :
            (/\ a.ev # b.ev
             /\ a.reader_id = b.reader_id /\ a.tag = b.tag
             /\ Abs(a.received_at - b.received_at) <= cfg.window_sec
             /\ a.fired /\ b.fired)
                => a.overlapped \/ b.overlapped

\* C24 witness: two requests for the same pair were received at the same
\* time, both rows are committed with reason ok, and the relay command was
\* written and flushed twice.
C24_Witness ==
    /\ cfg.window_sec > 0 /\ Len(events) = 2
    /\ events[1].reader_id = events[2].reader_id /\ events[1].tag = events[2].tag
    /\ events[1].received_at = events[2].received_at
    /\ events[1].reason = "ok" /\ events[2].reason = "ok"
    /\ events[1].overlapped /\ events[2].overlapped
    /\ Cardinality({ e \in relayLog : e.flushed }) = 2

\* C25: at no time are two request handlers inside the open/write/flush/close
\* sequence of the relay at once.
C25_RelayMutex == Cardinality({ t \in Threads : thr[t].pc \in RelaySteps }) <= 1

\* C26: a read error on the reader line closes and drops the handle, and so
\* does a write or flush error on the relay line; the call after such an error
\* opens a fresh connection before its I/O (the process has gone on to make
\* it), and a call that finds a connection that has not failed uses it
\* without opening one.
C26_LineRecovery ==
    /\ rdr.last.called =>
          /\ rdr.ser = IF rdr.last.failed THEN "none" ELSE "open"
          /\ rdr.last.prevFailed <=> rdr.last.serBefore = "none"
          /\ rdr.last.prevFailed => rdr.last.opened
          /\ ~rdr.last.prevFailed => ~rdr.last.opened
    /\ (lastFire.called /\ lastFire.channel \in RelayChannels) =>
          LET r == lastFire.r IN
          /\ (r.writeTried /\ ~r.flushed) => (relaySer = "none" /\ ~r.ok)
          /\ r.flushed => (relaySer = "open" /\ r.ok)
          /\ lastFire.prevDropped => lastFire.serBefore = "none"
          /\ lastFire.serBefore = "none" => (r.opens = 1 /\ (r.writeTried => ~r.openFailed))
          /\ lastFire.serBefore = "open" => (r.opens = 0 /\ r.writeTried)

\* C26 witness: the reader's read raised and the next call opened a second
\* handle and read from it; the relay's write raised and the next fire opened
\* the port again and wrote and flushed the command.
C26_Witness ==
    /\ rdr.last.called /\ rdr.last.prevFailed /\ rdr.last.opened /\ ~rdr.last.failed
    /\ rdr.ser = "open" /\ rdr.opens = 2
    /\ lastFire.called /\ lastFire.prevDropped /\ lastFire.r.opens = 1
    /\ lastFire.r.flushed /\ relaySer = "open"

\* C27: the center takes no notice of edgeEventId: every event of a request
\* of the agent, sent for the first time or again after the answer was lost,
\* gets a new audit row that carries its edgeEventId, so that every event the
\* center has handled has its row and a batch sent twice has two rows per
\* event with the same (readerId, edgeEventId).
C27_ResendInsertsAgain ==
    /\ h.pc = "idle" => lastId = evCount
    /\ (h.pc = "idle" /\ resp.status = 200) =>
          /\ resp.count = Len(readTags) /\ resp.added = resp.count
          /\ \A i \in 1..resp.count :
                /\ resp.results[i].edge_event_id = i
                /\ resp.results[i].db_id = lastId - resp.count + i
    /\ \A i \in 1..Len(Rows) :
          /\ Rows[i].edge_event_id = ((Rows[i].ev - 1) % Len(readTags)) + 1
          /\ Rows[i].id = Rows[i].ev

\* C27 witness: the answer to a batch of two was lost, the batch was sent
\* again and answered, and the log holds two rows for each of its events.
C27_Witness ==
    /\ h.pc = "idle" /\ resp.status = 200 /\ Len(readTags) = 2 /\ Len(events) = 4
    /\ \A i \in 1..2 : /\ events[i].edge_event_id = events[i + 2].edge_event_id
                        /\ events[i].reader_id = events[i + 2].reader_id
                        /\ events[i].tag = events[i + 2].tag

\* C28: one outbox record fires the relay at most once, however often the
\* batch containing it is sent.
C28_FiresAtMostOnce ==
    \A a \in RowSet(Rows), b \in RowSet(Rows) :
        (a.reader_id = b.reader_id /\ a.edge_event_id = b.edge_event_id /\ a.fired /\ b.fired)
            => a.id = b.id

\* C29: an event is classified duplicate only if an earlier event of the
\* same (readerId, tagId), received within the dedup window of it, fired the
\* relay; rows recorded with a rejection reason suppress nothing.
C29_DuplicateOnlyAfterFire ==
    \A i \in 1..Len(Results) :
        LET r == Results[i] IN
        r.reason = "duplicate" =>
            \E row \in RowSet(Rows) :
                /\ row.id < r.db_id
                /\ row.reader_id = r.g.reader_id /\ row.tag = r.tag
                /\ Abs(r.g.received_at - row.received_at) <= cfg.window_sec
                /\ row.fired

\* C30: once a request is over, every event for which the relay command was
\* written and flushed has a committed audit row with fired=true.
C30_FiredIsCommitted ==
    h.pc = "idle" =>
        \A e \in relayLog :
            e.flushed => \E row \in RowSet(events) : row.ev = e.ev /\ row.fired

\* C31: on the outbox agents every flush takes the unsent records with the
\* lowest localIds, up to the batch size, and marks all of them or none, so at
\* every moment every sent record in the outbox has a smaller localId than
\* every unsent one.
C31_SentBelowUnsent ==
    variant \in OutboxVariants =>
        /\ \A i \in 1..Len(store), j \in 1..Len(store) :
              (store[i].sent /\ ~store[j].sent) => store[i].id < store[j].id
        /\ lastSend.valid =>
              /\ lastSend.request \subseteq lastSend.before
              /\ Cardinality(lastSend.request) =
                    Min(BatchSize, Cardinality(lastSend.before))
              /\ \A a \in lastSend.request, b \in lastSend.before \ lastSend.request : a < b
              /\ \/ lastSend.after = lastSend.before \ lastSend.request
                 \/ lastSend.after = lastSend.before

\* C31 witness: a flush found more unsent records than the batch size, sent
\* the lowest ones, and they are marked while a higher one is still unsent.
C31_Witness ==
    /\ variant \in OutboxVariants /\ lastSend.valid /\ Is2xx(lastSend.status)
    /\ Cardinality(lastSend.before) > BatchSize
    /\ lastSend.after = lastSend.before \ lastSend.request /\ lastSend.after # {}
    /\ \E i \in 1..Len(store) : store[i].sent

\* C32: if from some point on the center answers every request of the agent
\* with success, then under fair scheduling of the loop every record appended
\* to the outbox is eventually marked sent or removed by the capacity trim.
C32_NoRecordUnsentForever ==
    (<>[][lastSend'.valid => Is2xx(lastSend'.status)]_vars) =>
        \A rd \in 1..MaxReads :
            [](rd <= reads => <>(rd \notin PendingReads))

\* C32 witness: every read the bound allows was appended, none of them is
\* unsent any more, some were marked after a 2xx answer and some were trimmed.
C32_Witness ==
    /\ variant \in OutboxVariants /\ reads = MaxReads
    /\ PendingReads = {}
    /\ acked # {} /\ trimmed # {}
    /\ \E i \in 1..Len(store) : store[i].sent

====
